---------------------------- MODULE Spec2Model ----------------------------
(***************************************************************************)
(* A model of the simulation core of Brift: the ECS World (entities,       *)
(* components, queries, the system loop) and the gameplay systems that     *)
(* run on it (AISystem, TowerSystem, CombatSystem).                        *)
(*                                                                         *)
(* Conventions.                                                            *)
(*  - A World is handled as a record w (nextEntityId, entities, isActive,  *)
(*    components, timers, exception, and invoked: the system updates the   *)
(*    running World.update has made); the operators below transform such   *)
(*    records the way the methods of the source transform the objects, and *)
(*    the actions install the result in the variables.                     *)
(*  - An optional field (a TypeScript `x?: T`) is <<>> when undefined and  *)
(*    <<v>> when it holds v.                                               *)
(*  - A quantity in seconds is kept in fixed point, as the integer number  *)
(*    of milliseconds (Sec(1) = 1000).  Health points, damage amounts and  *)
(*    coordinates are integers.                                            *)
(*  - Math.random() is a draw from Rolls, in hundredths: a draw r stands   *)
(*    for the value r/100 of [0, 1).                                       *)
(*  - An operator whose code draws a random number yields the SET of the   *)
(*    worlds it can produce.                                               *)
(***************************************************************************)
EXTENDS Integers, Sequences, FiniteSets, TLC

VARIABLES
    nextEntityId,   \* World.nextEntityId
    entities,       \* the keys of World.entities, in insertion order
    isActive,       \* Entity.isActive, per entity id
    components,     \* Entity.components, per entity id: kind -> component
    systems,        \* World.systems, in registration order
    timers,         \* pending setTimeout callbacks: <<entity id, ms left>>
    resourceGenerationRates,  \* EconomySystem.resourceGenerationRates
    uncaught,       \* the exception the last handler ended with ("none" if none)
    lastCall,       \* the last operation performed and what it was given
    ticks,          \* World.update calls made so far
    calls           \* direct API calls made so far

vars == << nextEntityId, entities, isActive, components, systems, timers,
           resourceGenerationRates, uncaught, lastCall, ticks, calls >>

-----------------------------------------------------------------------------
(* Bounds of the exploration *)

\* the game loop (Spec)
MaxEntities == 2
MaxTicks == 2
MaxCalls == 1
\* combat alone (SpecCombat)
MaxCombatants == 2
MaxCombatSteps == 2
\* the World alone (SpecWorld)
MaxWorldEntities == 2
\* tower targeting (SpecTower)
MaxTowerEntities == 3
MaxTowerTicks == 1
\* chain lightning (SpecChain)
MaxChainEntities == 5
MaxChainCalls == 1
\* the AI state machine (SpecAI)
MaxAIEntities == 2
MaxAITicks == 2
MaxAICalls == 1
\* destruction inside a tick (SpecCancel)
MaxCancelEntities == 2
MaxCancelSteps == 1
\* AISystem with PhysicsSystem (SpecMove)
MaxMoveEntities == 2
MaxMoveTicks == 2
\* dealDamage between CombatSystem ticks (SpecShield)
MaxShieldEntities == 2
MaxShieldSteps == 4
\* death and revival (SpecDeath)
MaxDeathEntities == 2
MaxDeathSteps == 3
\* melee resolution (SpecMelee)
MaxMeleeEntities == 3
MaxMeleeTicks == 1
\* tower cooldown (SpecVolley)
MaxVolleyEntities == 2
MaxVolleyTicks == 2

\* special abilities (SpecSpecial): ticks and direct triggers share the steps
MaxSpecialEntities == 3
MaxSpecialSteps == 3
\* setters (SpecSetters)
MaxSetterEntities == 2
MaxSetterCalls == 2
\* boosts (SpecEconomy)
MaxBoosts == 3

-----------------------------------------------------------------------------
(* Values *)

None == << >>
Some(v) == << v >>
IsDefined(opt) == opt # << >>
\* JavaScript truthiness of an optional number: undefined and 0 are falsy
Truthy(opt) == opt # << >> /\ opt[1] # 0
\* `opt || fallback`
OrElse(opt, fallback) == IF Truthy(opt) THEN opt[1] ELSE fallback

Sec(n) == n * 1000

Min(a, b) == IF a < b THEN a ELSE b
Max(a, b) == IF a > b THEN a ELSE b

Range(s) == { s[i] : i \in DOMAIN s }

EmptyMap == [ k \in {} |-> TRUE ]

NoException == "none"

\* Math.random() draws, in hundredths
Rolls == { 0, 50, 99 }

-----------------------------------------------------------------------------
(* Components *)

Position(x, y) == [ type |-> "position", x |-> x, y |-> y ]

\* dx, dy are the declared fields; x and y exist only once something assigns them
Velocity(dx, dy) == [ type |-> "velocity", dx |-> dx, dy |-> dy, x |-> None, y |-> None ]

Health(maxHealth) ==
    [ type |-> "health",
      current |-> maxHealth,
      max |-> maxHealth,
      regeneration |-> None,
      isDead |-> FALSE,
      isInvulnerable |-> FALSE,
      invulnerabilityTime |-> 0,
      invulnerabilityTimer |-> 0,
      deathDelay |-> 1000 ]

Damage(baseDamage) ==
    [ type |-> "damage",
      baseDamage |-> baseDamage,
      meleeDamage |-> None,
      meleeRange |-> None,
      rangedDamage |-> None,
      rangedRange |-> None,
      rangedCooldown |-> None,
      rangedCooldownMax |-> None,
      criticalChance |-> 5,
      criticalMultiplier |-> 2 ]

AIBehavior ==
    [ type |-> "aiBehavior",
      currentState |-> "idle",
      previousState |-> "idle",
      stateTimer |-> 0,
      stateDurations |-> None,
      isAttacking |-> FALSE,
      detectionRange |-> 100,
      attackRange |-> 50,
      threatLevel |-> 1,
      patrolSpeed |-> 50,
      chaseSpeed |-> 80,
      fleeSpeed |-> 100,
      patrolPoints |-> None,
      currentPatrolIndex |-> 0,
      fleeThreshold |-> 20 ]


TowerStats ==
    [ type |-> "towerStats",
      damage |-> 20,
      range |-> 100,
      attackRate |-> Sec(1),
      attackCooldown |-> 0,
      projectileType |-> None,
      specialAbility |-> None,
      specialCooldown |-> 0,
      specialCooldownMax |-> Sec(10),
      specialDamage |-> None,
      specialRange |-> None,
      chainCount |-> None,
      chainRange |-> None,
      preferCloserTargets |-> FALSE,
      targetLowHealth |-> FALSE,
      targetHighHealth |-> FALSE,
      prioritizeBosses |-> FALSE,
      totalDamageDealt |-> 0,
      kills |-> 0 ]

\* the marker component the targeting code reads: getComponent('enemy')
Enemy(enemyType, threatLevel) ==
    [ type |-> "enemy", enemyType |-> enemyType, threatLevel |-> threatLevel ]


-----------------------------------------------------------------------------
(* World: entities, components, queries *)

TheWorld ==
    [ nextEntityId |-> nextEntityId,
      entities |-> entities,
      isActive |-> isActive,
      components |-> components,
      timers |-> timers,
      exception |-> NoException,
      invoked |-> << >>,
      dealt |-> << >> ]

Install(w) ==
    /\ nextEntityId' = w.nextEntityId
    /\ entities' = w.entities
    /\ isActive' = w.isActive
    /\ components' = w.components
    /\ timers' = w.timers
    /\ uncaught' = w.exception
    /\ UNCHANGED resourceGenerationRates

\* a variant of CreateEntity that leaves nextEntityId as it is
CreateEntityKeepingCounter(w) ==
    LET id == w.nextEntityId IN
    [ w EXCEPT !.entities = Append(@, id),
               !.isActive = (id :> TRUE) @@ @,
               !.components = (id :> EmptyMap) @@ @ ]

\* new Entity(id): no component, active
CreateEntity(w) ==
    LET id == w.nextEntityId IN
    [ w EXCEPT !.nextEntityId = id + 1,
               !.entities = Append(@, id),
               !.isActive = (id :> TRUE) @@ @,
               !.components = (id :> EmptyMap) @@ @ ]

\* a variant of EntityAddComponent that keeps a component of the kind already held
EntityAddComponentKeepingOld(w, entityId, component) ==
    [ w EXCEPT !.components[entityId] = @ @@ (component.type :> component) ]

\* Entity.addComponent: components.set(component.getType(), component)
EntityAddComponent(w, entityId, component) ==
    [ w EXCEPT !.components[entityId] = (component.type :> component) @@ @ ]

\* a variant of AddComponent that stores the component under the given id plus one
AddComponentOffByOne(w, entityId, component) ==
    IF entityId + 1 \in Range(w.entities)
    THEN EntityAddComponent(w, entityId + 1, component)
    ELSE w

\* World.addComponent: nothing happens when the id is not in the map
AddComponent(w, entityId, component) ==
    IF entityId \in Range(w.entities)
    THEN EntityAddComponent(w, entityId, component)
    ELSE w

HasComponent(w, entityId, componentType) ==
    componentType \in DOMAIN w.components[entityId]

\* Entity.getComponent: the component of that kind, or undefined
GetComponent(w, entityId, componentType) ==
    IF HasComponent(w, entityId, componentType)
    THEN Some(w.components[entityId][componentType])
    ELSE None

SetComponent(w, entityId, component) ==
    [ w EXCEPT !.components[entityId][component.type] = component ]

SetActive(w, entityId, active) ==
    [ w EXCEPT !.isActive[entityId] = active ]

EntityDestroy(w, entityId) ==
    [ w EXCEPT !.isActive[entityId] = FALSE,
               !.components[entityId] = EmptyMap ]

\* a variant of QueryMatches that does not look at isActive
QueryMatchesInactiveToo(w, entityId, componentTypes) ==
    \A t \in componentTypes : HasComponent(w, entityId, t)

QueryMatches(w, entityId, componentTypes) ==
    /\ w.isActive[entityId]
    /\ \A t \in componentTypes : HasComponent(w, entityId, t)

\* World.getEntitiesWithComponents: one pass over the map, in insertion order
GetEntitiesWithComponents(w, componentTypes) ==
    SelectSeq(w.entities, LAMBDA id : QueryMatches(w, id, componentTypes))


-----------------------------------------------------------------------------
(* Geometry *)

\* the r with lo <= r < hi and r * r <= n < (r + 1) * (r + 1), by bisection
RECURSIVE SqrtBetween(_, _, _)
SqrtBetween(n, lo, hi) ==
    IF hi - lo <= 1 THEN lo
    ELSE LET mid == (lo + hi) \div 2
         IN IF mid * mid <= n THEN SqrtBetween(n, mid, hi) ELSE SqrtBetween(n, lo, mid)

\* Math.sqrt, exact on the perfect squares the model's coordinates produce
\* (the search stays below 46341, whose square no longer fits a 32-bit integer)
Sqrt(n) == SqrtBetween(n, 0, Min(n + 1, 46341))

\* MathUtils.distance
Distance(x1, y1, x2, y2) ==
    LET dx == x2 - x1
        dy == y2 - y1
    IN Sqrt(dx * dx + dy * dy)

-----------------------------------------------------------------------------
(* CombatSystem *)

\* deltaTime / 1000, in fixed point
DeltaSeconds(deltaTime) == Sec(deltaTime) \div 1000

\* the setTimeout of handleEntityDeath: world.removeEntity(id) after
\* `health.deathDelay || 1000` milliseconds
ScheduleRemoval(w, entityId, delay) ==
    [ w EXCEPT !.timers = Append(@, [ entityId |-> entityId, remaining |-> delay ]) ]

\* a variant of HandleEntityDeath that schedules the removal without setting isDead
HandleEntityDeathUnmarked(w, entityId) ==
    LET health == GetComponent(w, entityId, "health") IN
    IF ~IsDefined(health) THEN w
    ELSE ScheduleRemoval(w, entityId,
                         IF health[1].deathDelay # 0 THEN health[1].deathDelay ELSE 1000)

HandleEntityDeath(w, entityId) ==
    LET health == GetComponent(w, entityId, "health") IN
    IF ~IsDefined(health) THEN w
    ELSE LET dead == [ health[1] EXCEPT !.isDead = TRUE ]
         IN ScheduleRemoval(SetComponent(w, entityId, dead), entityId,
                            IF dead.deathDelay # 0 THEN dead.deathDelay ELSE 1000)

\* a variant of UpdateInvulnerabilityTimer that counts each second twice
UpdateInvulnerabilityTimerTwice(health, deltaSeconds) ==
    IF health.invulnerabilityTimer > 0
    THEN [ health EXCEPT !.invulnerabilityTimer = @ - 2 * deltaSeconds ]
    ELSE health

\* `if (health.invulnerabilityTimer > 0) health.invulnerabilityTimer -= deltaSeconds`
UpdateInvulnerabilityTimer(health, deltaSeconds) ==
    IF health.invulnerabilityTimer > 0
    THEN [ health EXCEPT !.invulnerabilityTimer = @ - deltaSeconds ]
    ELSE health

\* a variant of UpdateHealth that reads the health component without testing it
UpdateHealthUntested(w, entityId, deltaSeconds) ==
    IF ~HasComponent(w, entityId, "health")
    THEN [ w EXCEPT !.exception = "TypeError: Cannot read properties of undefined (regeneration)" ]
    ELSE w

UpdateHealth(w, entityId, deltaSeconds) ==
    LET health == GetComponent(w, entityId, "health") IN
    IF ~IsDefined(health) THEN w
    ELSE LET h0 == health[1]
             h1 == IF Truthy(h0.regeneration) /\ h0.current < h0.max
                   THEN [ h0 EXCEPT !.current =
                            Min(h0.max, h0.current + (h0.regeneration[1] * deltaSeconds) \div 1000) ]
                   ELSE h0
             h2 == UpdateInvulnerabilityTimer(h1, deltaSeconds)
             w2 == SetComponent(w, entityId, h2)
         IN IF h2.current <= 0 /\ ~h2.isDead
            THEN HandleEntityDeath(w2, entityId)
            ELSE w2

\* the critical-hit test of dealDamage: Math.random() is compared only when
\* criticalChance is truthy
IsCritical(attackerDamage, roll) ==
    /\ IsDefined(attackerDamage)
    /\ attackerDamage[1].criticalChance # 0
    /\ roll < attackerDamage[1].criticalChance

\* a variant of CriticalDamage that leaves the multiplier out
UnscaledCriticalDamage(attackerDamage, damageAmount) == damageAmount

\* `damageAmount * (criticalMultiplier || 2.0)`
CriticalDamage(attackerDamage, damageAmount) ==
    damageAmount * (IF attackerDamage.criticalMultiplier # 0
                    THEN attackerDamage.criticalMultiplier ELSE 2)

\* a variant of IsInvulnerableToDamage that never holds
NeverInvulnerableToDamage(targetHealth) == FALSE

\* the test that makes dealDamage return without touching the target
IsInvulnerableToDamage(targetHealth) ==
    targetHealth.invulnerabilityTimer > 0

\* CombatSystem.dealDamage, with the value Math.random() returns when called
\* (dealt keeps the calls made, for observation)
DealDamage(world, attacker, target, damageAmount, roll) ==
    LET w == [ world EXCEPT !.dealt = Append(@, [ attacker |-> attacker, target |-> target ]) ]
        targetHealth == GetComponent(w, target, "health") IN
    IF ~IsDefined(targetHealth) THEN w
    ELSE IF IsInvulnerableToDamage(targetHealth[1]) THEN w
    ELSE LET h1 == [ targetHealth[1] EXCEPT !.current = @ - damageAmount ]
             h2 == IF h1.invulnerabilityTime > 0
                   THEN [ h1 EXCEPT !.invulnerabilityTimer = h1.invulnerabilityTime ]
                   ELSE h1
             attackerDamage == GetComponent(w, attacker, "damage")
             h3 == IF IsCritical(attackerDamage, roll)
                   THEN [ h2 EXCEPT !.current = @ - CriticalDamage(attackerDamage[1], damageAmount) ]
                   ELSE h2
         IN SetComponent(w, target, h3)

DealDamageOutcomes(w, attacker, target, damageAmount) ==
    { DealDamage(w, attacker, target, damageAmount, roll) : roll \in Rolls }

\* CombatSystem.healEntity
HealEntity(w, entityId, healAmount) ==
    LET health == GetComponent(w, entityId, "health") IN
    IF ~IsDefined(health) THEN w
    ELSE SetComponent(w, entityId,
            [ health[1] EXCEPT !.current = Min(health[1].max, health[1].current + healAmount) ])

\* a variant of FindTargetsInRange without the `continue` that skips the entity itself
FindTargetsInRangeSelfToo(w, entityId, range) ==
    LET position == GetComponent(w, entityId, "position") IN
    IF ~IsDefined(position) THEN << >>
    ELSE SelectSeq(GetEntitiesWithComponents(w, { "health", "position" }),
            LAMBDA target :
                Distance(position[1].x, position[1].y,
                         w.components[target]["position"].x,
                         w.components[target]["position"].y) <= range)

\* CombatSystem.findTargetsInRange
FindTargetsInRange(w, entityId, range) ==
    LET position == GetComponent(w, entityId, "position") IN
    IF ~IsDefined(position) THEN << >>
    ELSE SelectSeq(GetEntitiesWithComponents(w, { "health", "position" }),
            LAMBDA target :
                /\ target # entityId
                /\ Distance(position[1].x, position[1].y,
                            w.components[target]["position"].x,
                            w.components[target]["position"].y) <= range)

RECURSIVE ClosestFrom(_, _, _, _, _, _)
ClosestFrom(w, position, targets, i, closestTarget, closestDistance) ==
    IF i > Len(targets) THEN closestTarget
    ELSE LET targetPos == GetComponent(w, targets[i], "position") IN
         IF ~IsDefined(targetPos)
         THEN ClosestFrom(w, position, targets, i + 1, closestTarget, closestDistance)
         ELSE LET distance == Distance(position.x, position.y, targetPos[1].x, targetPos[1].y) IN
              IF closestTarget = None \/ distance < closestDistance
              THEN ClosestFrom(w, position, targets, i + 1, Some(targets[i]), distance)
              ELSE ClosestFrom(w, position, targets, i + 1, closestTarget, closestDistance)

\* CombatSystem.findClosestTarget: the first of the nearest targets, or null
FindClosestTarget(w, entityId, targets) ==
    LET position == GetComponent(w, entityId, "position") IN
    IF Len(targets) = 0 \/ ~IsDefined(position) THEN None
    ELSE ClosestFrom(w, position[1], targets, 1, None, 0)

\* CombatSystem.createProjectile: a new entity, given no component
CombatCreateProjectile(w, entityId, target) ==
    IF ~HasComponent(w, entityId, "position") \/ ~HasComponent(w, target, "position")
    THEN w
    ELSE CreateEntity(w)

RECURSIVE MeleeLoop(_, _, _, _, _)
MeleeLoop(ws, entityId, targets, damageAmount, i) ==
    IF i > Len(targets) THEN ws
    ELSE MeleeLoop(UNION { DealDamageOutcomes(w, entityId, targets[i], damageAmount) : w \in ws },
                   entityId, targets, damageAmount, i + 1)

\* `damage.meleeDamage || damage.baseDamage || 10`
MeleeAmount(damage) ==
    OrElse(damage.meleeDamage, IF damage.baseDamage # 0 THEN damage.baseDamage ELSE 10)

ProcessMeleeAttack(w, entityId, damage) ==
    IF ~HasComponent(w, entityId, "position") THEN { w }
    ELSE MeleeLoop({ w }, entityId, FindTargetsInRange(w, entityId, damage.meleeRange[1]),
                   MeleeAmount(damage), 1)

ProcessRangedAttack(w, entityId, damage) ==
    IF ~HasComponent(w, entityId, "position") THEN w
    ELSE LET targets == FindTargetsInRange(w, entityId, damage.rangedRange[1])
             closestTarget == FindClosestTarget(w, entityId, targets)
         IN IF Len(targets) > 0 /\ IsDefined(closestTarget)
            THEN CombatCreateProjectile(w, entityId, closestTarget[1])
            ELSE w

\* the ranged half of processAttacks
ProcessRanged(w, entityId, deltaSeconds) ==
    LET damage == w.components[entityId]["damage"] IN
    IF Truthy(damage.rangedRange) /\ IsDefined(damage.rangedCooldown)
    THEN LET cooled == [ damage EXCEPT !.rangedCooldown = Some(@[1] - deltaSeconds) ]
             w1 == SetComponent(w, entityId, cooled)
         IN IF cooled.rangedCooldown[1] <= 0
            THEN SetComponent(ProcessRangedAttack(w1, entityId, cooled), entityId,
                    [ cooled EXCEPT !.rangedCooldown = Some(OrElse(cooled.rangedCooldownMax, Sec(1))) ])
            ELSE w1
    ELSE w

ProcessAttacks(w, entityId, deltaSeconds) ==
    LET health == GetComponent(w, entityId, "health")
        damage == GetComponent(w, entityId, "damage")
        aiBehavior == GetComponent(w, entityId, "aiBehavior")
    IN IF ~IsDefined(health) \/ ~IsDefined(damage) THEN { w }
       ELSE LET afterMelee ==
                    IF Truthy(damage[1].meleeRange) /\ IsDefined(aiBehavior) /\ aiBehavior[1].isAttacking
                    THEN ProcessMeleeAttack(w, entityId, damage[1])
                    ELSE { w }
            IN { ProcessRanged(w1, entityId, deltaSeconds) : w1 \in afterMelee }

RECURSIVE CombatLoop(_, _, _, _)
CombatLoop(ws, list, deltaSeconds, i) ==
    IF i > Len(list) THEN ws
    ELSE CombatLoop(UNION { ProcessAttacks(UpdateHealth(w, list[i], deltaSeconds), list[i], deltaSeconds)
                            : w \in ws },
                    list, deltaSeconds, i + 1)

\* CombatSystem.update
CombatSystemUpdate(w, deltaTime, list) ==
    CombatLoop({ w }, list, DeltaSeconds(deltaTime), 1)


-----------------------------------------------------------------------------
(* AISystem *)

PatrolTypeError == "TypeError: Cannot read properties of undefined (patrolPoints)"

\* AISystem.findNearestPlayer: `return null`
FindNearestPlayer(w, entityId) == None

\* AISystem.isInRange
IsInRange(w, entityId, target, range) ==
    LET posA == GetComponent(w, entityId, "position")
        posB == GetComponent(w, target, "position")
    IN /\ IsDefined(posA)
       /\ IsDefined(posB)
       /\ Distance(posA[1].x, posA[1].y, posB[1].x, posB[1].y) <= range

\* `aiBehavior.stateDurations?.[newState] || 5.0`
StateDuration(aiBehavior, newState) ==
    IF /\ IsDefined(aiBehavior.stateDurations)
       /\ newState \in DOMAIN aiBehavior.stateDurations[1]
       /\ aiBehavior.stateDurations[1][newState] # 0
    THEN aiBehavior.stateDurations[1][newState]
    ELSE Sec(5)

\* AIBehavior.setState
SetState(aiBehavior, state) ==
    [ aiBehavior EXCEPT !.previousState = aiBehavior.currentState,
                        !.currentState = state,
                        !.stateTimer = StateDuration(aiBehavior, state) ]

\* AISystem.changeState
ChangeState(aiBehavior, newState) ==
    [ aiBehavior EXCEPT !.previousState = aiBehavior.currentState,
                        !.currentState = newState,
                        !.stateTimer = StateDuration(aiBehavior, newState),
                        !.isAttacking = FALSE ]

\* `aiBehavior.patrolPoints[aiBehavior.currentPatrolIndex]` of an array
PatrolPointAt(points, index) ==
    IF index >= 0 /\ index < Len(points) THEN Some(points[index + 1]) ELSE None

CheckIdleTransitions(w, entityId, aiBehavior, roll) ==
    LET player == FindNearestPlayer(w, entityId) IN
    IF IsDefined(player) /\ IsInRange(w, entityId, player[1], aiBehavior.detectionRange)
    THEN ChangeState(aiBehavior, "chase")
    ELSE IF roll < 1
         THEN ChangeState(aiBehavior, "patrol")
         ELSE aiBehavior

HasReachedPatrolPoint(w, entityId, aiBehavior) ==
    LET position == GetComponent(w, entityId, "position") IN
    IF ~IsDefined(position) \/ ~IsDefined(aiBehavior.patrolPoints) THEN FALSE
    ELSE LET target == PatrolPointAt(aiBehavior.patrolPoints[1], aiBehavior.currentPatrolIndex) IN
         /\ IsDefined(target)
         /\ Distance(position[1].x, position[1].y, target[1].x, target[1].y) < 10

SetNextPatrolPoint(aiBehavior) ==
    IF ~IsDefined(aiBehavior.patrolPoints) THEN aiBehavior
    ELSE [ aiBehavior EXCEPT !.currentPatrolIndex =
                (@ + 1) % Len(aiBehavior.patrolPoints[1]) ]

CheckPatrolTransitions(w, entityId, aiBehavior) ==
    LET player == FindNearestPlayer(w, entityId) IN
    IF IsDefined(player) /\ IsInRange(w, entityId, player[1], aiBehavior.detectionRange)
    THEN ChangeState(aiBehavior, "chase")
    ELSE IF HasReachedPatrolPoint(w, entityId, aiBehavior)
         THEN SetNextPatrolPoint(aiBehavior)
         ELSE aiBehavior

\* distance <= range * 1.5, and distance <= range * 2
IsInRangeTimes(w, entityId, target, range, halves) ==
    LET posA == GetComponent(w, entityId, "position")
        posB == GetComponent(w, target, "position")
    IN /\ IsDefined(posA)
       /\ IsDefined(posB)
       /\ 2 * Distance(posA[1].x, posA[1].y, posB[1].x, posB[1].y) <= range * halves

CheckChaseTransitions(w, entityId, aiBehavior) ==
    LET player == FindNearestPlayer(w, entityId) IN
    IF ~IsDefined(player) THEN ChangeState(aiBehavior, "idle")
    ELSE IF ~IsInRangeTimes(w, entityId, player[1], aiBehavior.detectionRange, 3)
         THEN ChangeState(aiBehavior, "idle")
    ELSE IF IsInRange(w, entityId, player[1], aiBehavior.attackRange)
         THEN ChangeState(aiBehavior, "attack")
    ELSE aiBehavior

CheckAttackTransitions(w, entityId, aiBehavior) ==
    LET player == FindNearestPlayer(w, entityId)
        health == GetComponent(w, entityId, "health")
    IN IF ~IsDefined(player) THEN ChangeState(aiBehavior, "idle")
       ELSE IF ~IsInRange(w, entityId, player[1], aiBehavior.attackRange)
            THEN ChangeState(aiBehavior, "chase")
       ELSE IF IsDefined(health)
               /\ health[1].current * 100 < health[1].max * aiBehavior.fleeThreshold
            THEN ChangeState(aiBehavior, "flee")
       ELSE aiBehavior

CheckFleeTransitions(w, entityId, aiBehavior) ==
    LET player == FindNearestPlayer(w, entityId)
        health == GetComponent(w, entityId, "health")
    IN IF IsDefined(health)
          /\ health[1].current * 200 > health[1].max * aiBehavior.fleeThreshold * 3
       THEN ChangeState(aiBehavior, "idle")
       ELSE IF IsDefined(player)
               /\ ~IsInRangeTimes(w, entityId, player[1], aiBehavior.detectionRange, 4)
            THEN ChangeState(aiBehavior, "idle")
       ELSE aiBehavior

\* AISystem.updateStateMachine; roll is the value Math.random() returns if asked
UpdateStateMachine(w, entityId, aiBehavior, deltaSeconds, roll) ==
    LET timed == [ aiBehavior EXCEPT !.stateTimer = @ - deltaSeconds ]
        ai1 == IF timed.stateTimer <= 0 THEN ChangeState(timed, "idle") ELSE timed
    IN CASE ai1.currentState = "idle" -> CheckIdleTransitions(w, entityId, ai1, roll)
         [] ai1.currentState = "patrol" -> CheckPatrolTransitions(w, entityId, ai1)
         [] ai1.currentState = "chase" -> CheckChaseTransitions(w, entityId, ai1)
         [] ai1.currentState = "attack" -> CheckAttackTransitions(w, entityId, ai1)
         [] ai1.currentState = "flee" -> CheckFleeTransitions(w, entityId, ai1)
         [] OTHER -> ai1

\* `velocity.x = vx; velocity.y = vy`
SetVelocityXY(w, entityId, vx, vy) ==
    SetComponent(w, entityId,
        [ w.components[entityId]["velocity"] EXCEPT !.x = Some(vx), !.y = Some(vy) ])

\* executeIdle, and the first half of executeAttack
StopMovement(w, entityId) ==
    IF HasComponent(w, entityId, "velocity") THEN SetVelocityXY(w, entityId, 0, 0) ELSE w

\* (dx / distance) * speed, exact when the two points lie on an axis
Steer(w, entityId, dx, dy, distance, speed) ==
    SetVelocityXY(w, entityId, (dx * speed) \div distance, (dy * speed) \div distance)

ExecutePatrol(w, entityId, aiBehavior) ==
    IF ~HasComponent(w, entityId, "velocity") \/ ~HasComponent(w, entityId, "position") THEN w
    ELSE IF ~IsDefined(aiBehavior.patrolPoints)
         THEN [ w EXCEPT !.exception = PatrolTypeError ]
    ELSE LET position == w.components[entityId]["position"]
             target == PatrolPointAt(aiBehavior.patrolPoints[1], aiBehavior.currentPatrolIndex)
         IN IF ~IsDefined(target) THEN w
            ELSE LET dx == target[1].x - position.x
                     dy == target[1].y - position.y
                     distance == Sqrt(dx * dx + dy * dy)
                 IN IF distance > 5
                    THEN Steer(w, entityId, dx, dy, distance, aiBehavior.patrolSpeed)
                    ELSE w

\* executeChase (away = FALSE) and executeFlee (away = TRUE)
ExecuteTowards(w, entityId, speed, away) ==
    LET player == FindNearestPlayer(w, entityId) IN
    IF ~HasComponent(w, entityId, "velocity") \/ ~HasComponent(w, entityId, "position")
       \/ ~IsDefined(player)
    THEN w
    ELSE LET playerPos == GetComponent(w, player[1], "position")
             position == w.components[entityId]["position"]
         IN IF ~IsDefined(playerPos) THEN w
            ELSE LET dx == IF away THEN position.x - playerPos[1].x ELSE playerPos[1].x - position.x
                     dy == IF away THEN position.y - playerPos[1].y ELSE playerPos[1].y - position.y
                     distance == Sqrt(dx * dx + dy * dy)
                 IN IF distance > 0 THEN Steer(w, entityId, dx, dy, distance, speed) ELSE w

ExecuteAttack(w, entityId, aiBehavior) ==
    SetComponent(StopMovement(w, entityId), entityId, [ aiBehavior EXCEPT !.isAttacking = TRUE ])

\* AISystem.executeBehavior
ExecuteBehavior(w, entityId, aiBehavior) ==
    CASE aiBehavior.currentState = "idle" -> StopMovement(w, entityId)
      [] aiBehavior.currentState = "patrol" -> ExecutePatrol(w, entityId, aiBehavior)
      [] aiBehavior.currentState = "chase" -> ExecuteTowards(w, entityId, aiBehavior.chaseSpeed, FALSE)
      [] aiBehavior.currentState = "attack" -> ExecuteAttack(w, entityId, aiBehavior)
      [] aiBehavior.currentState = "flee" -> ExecuteTowards(w, entityId, aiBehavior.fleeSpeed, TRUE)
      [] OTHER -> w

\* AISystem.updateAI
UpdateAI(w, entityId, deltaSeconds, roll) ==
    IF ~HasComponent(w, entityId, "aiBehavior") \/ ~HasComponent(w, entityId, "position") THEN w
    ELSE LET aiBehavior == UpdateStateMachine(w, entityId, w.components[entityId]["aiBehavior"],
                                              deltaSeconds, roll)
         IN ExecuteBehavior(SetComponent(w, entityId, aiBehavior), entityId, aiBehavior)

RECURSIVE AILoop(_, _, _, _)
AILoop(ws, list, deltaSeconds, i) ==
    IF i > Len(list) THEN ws
    ELSE AILoop(UNION { IF w.exception # NoException THEN { w }
                        ELSE { UpdateAI(w, list[i], deltaSeconds, roll) : roll \in Rolls }
                        : w \in ws },
                list, deltaSeconds, i + 1)

\* AISystem.update
AISystemUpdate(w, deltaTime, list) ==
    AILoop({ w }, list, DeltaSeconds(deltaTime), 1)


-----------------------------------------------------------------------------
(* TowerSystem *)

(* A target's score is a JavaScript number.  It is kept exactly: a finite  *)
(* score is the fraction num/den with den > 0; kind tells NaN and the two  *)
(* infinities apart from the finite scores.                                *)
Finite(num, den) ==
    IF den > 0 THEN [ kind |-> "finite", num |-> num, den |-> den ]
    ELSE [ kind |-> "finite", num |-> 0 - num, den |-> 0 - den ]

NotANumber == [ kind |-> "nan", num |-> 0, den |-> 1 ]
Infinite(sign) == [ kind |-> IF sign > 0 THEN "+inf" ELSE "-inf", num |-> 0, den |-> 1 ]

\* num / den as JavaScript divides
Quotient(num, den) ==
    IF den # 0 THEN Finite(num, den)
    ELSE IF num = 0 THEN NotANumber
    ELSE Infinite(num)

ScoreAdd(a, b) ==
    IF a.kind = "nan" \/ b.kind = "nan" THEN NotANumber
    ELSE IF a.kind = "finite" /\ b.kind = "finite"
         THEN Finite(a.num * b.den + b.num * a.den, a.den * b.den)
    ELSE IF a.kind = "finite" THEN b
    ELSE IF b.kind = "finite" \/ a.kind = b.kind THEN a
    ELSE NotANumber

\* a > b
ScoreGreater(a, b) ==
    /\ a.kind # "nan"
    /\ b.kind # "nan"
    /\ \/ a.kind = "+inf" /\ b.kind # "+inf"
       \/ a.kind = "finite" /\ b.kind = "-inf"
       \/ a.kind = "finite" /\ b.kind = "finite" /\ a.num * b.den > b.num * a.den

\* a variant of CalculateTargetPriority that scores the threat level only
ThreatOnlyPriority(w, target, distance, towerStats) ==
    LET targetEnemy == GetComponent(w, target, "enemy") IN
    IF ~IsDefined(targetEnemy) THEN Finite(0, 1)
    ELSE Finite(targetEnemy[1].threatLevel * 100, 1)

\* TowerSystem.calculateTargetPriority
CalculateTargetPriority(w, target, distance, towerStats) ==
    LET targetHealth == GetComponent(w, target, "health")
        targetEnemy == GetComponent(w, target, "enemy")
    IN IF ~IsDefined(targetHealth) \/ ~IsDefined(targetEnemy) THEN Finite(0, 1)
       ELSE LET distanceTerm ==
                    IF towerStats.preferCloserTargets
                    THEN Quotient((towerStats.range - distance) * 100, towerStats.range)
                    ELSE Quotient(distance * 100, towerStats.range)
                healthTerm ==
                    IF towerStats.targetLowHealth
                    THEN Quotient((targetHealth[1].max - targetHealth[1].current) * 200, targetHealth[1].max)
                    ELSE IF towerStats.targetHighHealth
                         THEN Quotient(targetHealth[1].current * 200, targetHealth[1].max)
                         ELSE Finite(0, 1)
                bossTerm ==
                    IF towerStats.prioritizeBosses /\ targetEnemy[1].enemyType = "boss"
                    THEN Finite(500, 1) ELSE Finite(0, 1)
                threatTerm == Finite(targetEnemy[1].threatLevel * 100, 1)
            IN ScoreAdd(ScoreAdd(ScoreAdd(distanceTerm, healthTerm), bossTerm), threatTerm)

EnemyKinds == { "health", "position", "enemy" }

RECURSIVE FindTargetFrom(_, _, _, _, _, _, _)
FindTargetFrom(w, position, towerStats, potentialTargets, i, bestTarget, bestScore) ==
    IF i > Len(potentialTargets) THEN bestTarget
    ELSE LET target == potentialTargets[i]
             targetPos == w.components[target]["position"]
             distance == Distance(position.x, position.y, targetPos.x, targetPos.y)
         IN IF distance > towerStats.range
            THEN FindTargetFrom(w, position, towerStats, potentialTargets, i + 1, bestTarget, bestScore)
            ELSE LET score == CalculateTargetPriority(w, target, distance, towerStats) IN
                 IF ScoreGreater(score, bestScore)
                 THEN FindTargetFrom(w, position, towerStats, potentialTargets, i + 1, Some(target), score)
                 ELSE FindTargetFrom(w, position, towerStats, potentialTargets, i + 1, bestTarget, bestScore)

\* TowerSystem.findTarget: the entity id, or null
FindTarget(w, entityId, towerStats) ==
    LET position == GetComponent(w, entityId, "position") IN
    IF ~IsDefined(position) THEN None
    ELSE FindTargetFrom(w, position[1], towerStats, GetEntitiesWithComponents(w, EnemyKinds),
                        1, None, Infinite(-1))

\* `health.current -= amount` on the target, when it has a health component
SubtractHealth(w, target, amount) ==
    LET targetHealth == GetComponent(w, target, "health") IN
    IF IsDefined(targetHealth)
    THEN SetComponent(w, target, [ targetHealth[1] EXCEPT !.current = @ - amount ])
    ELSE w

\* TowerSystem.applyDirectDamage
ApplyDirectDamage(w, target, towerStats) ==
    SubtractHealth(w, target, towerStats.damage)

\* TowerSystem.createProjectile
TowerCreateProjectile(w, entityId, target) ==
    IF ~HasComponent(w, entityId, "position") \/ ~HasComponent(w, target, "position")
    THEN w
    ELSE CreateEntity(w)

\* the counters attackTarget updates after an attack
CountAttack(towerStats) ==
    [ towerStats EXCEPT !.totalDamageDealt = @ + towerStats.damage,
                        !.kills = @ + 1 ]

\* TowerSystem.attackTarget: the world and the tower's stats after it
AttackTarget(w, entityId, target, towerStats) ==
    IF ~HasComponent(w, entityId, "position") \/ ~HasComponent(w, target, "position")
    THEN [ world |-> w, towerStats |-> towerStats ]
    ELSE [ world |-> IF IsDefined(towerStats.projectileType)
                     THEN TowerCreateProjectile(w, entityId, target)
                     ELSE ApplyDirectDamage(w, target, towerStats),
           towerStats |-> CountAttack(towerStats) ]

\* a variant of BasicAttack that leaves attackCooldown as it is after an attack
BasicAttackWithoutReset(w, entityId, towerStats) ==
    IF towerStats.attackCooldown <= 0
    THEN LET target == FindTarget(w, entityId, towerStats) IN
         IF IsDefined(target)
         THEN AttackTarget(w, entityId, target[1], towerStats)
         ELSE [ world |-> w, towerStats |-> towerStats ]
    ELSE [ world |-> w, towerStats |-> towerStats ]

\* the basic-attack half of updateTower
BasicAttack(w, entityId, towerStats) ==
    IF towerStats.attackCooldown <= 0
    THEN LET target == FindTarget(w, entityId, towerStats) IN
         IF IsDefined(target)
         THEN LET hit == AttackTarget(w, entityId, target[1], towerStats) IN
              [ world |-> hit.world,
                towerStats |-> [ hit.towerStats EXCEPT !.attackCooldown = hit.towerStats.attackRate ] ]
         ELSE [ world |-> w, towerStats |-> towerStats ]
    ELSE [ world |-> w, towerStats |-> towerStats ]

\* `towerStats.specialDamage || towerStats.damage * 0.5` (tenths = 5), `* 0.7` (tenths = 7)
SpecialAmount(towerStats, tenths) ==
    OrElse(towerStats.specialDamage, (towerStats.damage * tenths) \div 10)

\* `distance <= towerStats.specialRange`: false when the range is undefined
WithinOptional(distance, range) ==
    IsDefined(range) /\ distance <= range[1]

RECURSIVE AreaLoop(_, _, _, _, _)
AreaLoop(w, position, towerStats, targets, i) ==
    IF i > Len(targets) THEN w
    ELSE LET targetPos == GetComponent(w, targets[i], "position") IN
         IF /\ IsDefined(targetPos)
            /\ WithinOptional(Distance(position.x, position.y, targetPos[1].x, targetPos[1].y),
                              towerStats.specialRange)
         THEN AreaLoop(SubtractHealth(w, targets[i], SpecialAmount(towerStats, 5)),
                       position, towerStats, targets, i + 1)
         ELSE AreaLoop(w, position, towerStats, targets, i + 1)

\* TowerSystem.triggerAreaDamage
TriggerAreaDamage(w, entityId, towerStats) ==
    LET position == GetComponent(w, entityId, "position") IN
    IF ~IsDefined(position) THEN w
    ELSE AreaLoop(w, position[1], towerStats, GetEntitiesWithComponents(w, EnemyKinds), 1)

RECURSIVE NextChainFrom(_, _, _, _, _, _, _, _)
NextChainFrom(w, currentTarget, currentPos, towerStats, nearbyEnemies, i, bestTarget, bestDistance) ==
    IF i > Len(nearbyEnemies) THEN bestTarget
    ELSE LET enemy == nearbyEnemies[i]
             enemyPos == w.components[enemy]["position"]
             distance == Distance(currentPos.x, currentPos.y, enemyPos.x, enemyPos.y)
         IN IF /\ enemy # currentTarget
               /\ WithinOptional(distance, towerStats.chainRange)
               /\ (bestTarget = None \/ distance < bestDistance)
            THEN NextChainFrom(w, currentTarget, currentPos, towerStats, nearbyEnemies, i + 1,
                               Some(enemy), distance)
            ELSE NextChainFrom(w, currentTarget, currentPos, towerStats, nearbyEnemies, i + 1,
                               bestTarget, bestDistance)

\* TowerSystem.findNextChainTarget
FindNextChainTarget(w, currentTarget, towerStats) ==
    LET currentPos == GetComponent(w, currentTarget, "position") IN
    IF ~IsDefined(currentPos) THEN None
    ELSE NextChainFrom(w, currentTarget, currentPos[1], towerStats,
                       GetEntitiesWithComponents(w, EnemyKinds), 1, None, 0)

RECURSIVE ChainLoop(_, _, _, _, _)
ChainLoop(w, towerStats, currentTarget, chainCount, maxChains) ==
    IF ~IsDefined(currentTarget) \/ chainCount >= maxChains THEN w
    ELSE LET w1 == SubtractHealth(w, currentTarget[1], SpecialAmount(towerStats, 7)) IN
         ChainLoop(w1, towerStats, FindNextChainTarget(w1, currentTarget[1], towerStats),
                   chainCount + 1, maxChains)

\* TowerSystem.triggerChainLightning
TriggerChainLightning(w, entityId, towerStats) ==
    IF ~HasComponent(w, entityId, "position") THEN w
    ELSE ChainLoop(w, towerStats, FindTarget(w, entityId, towerStats), 0,
                   OrElse(towerStats.chainCount, 3))

\* TowerSystem.triggerSpecialAbility; slow and stun only log
TriggerSpecialAbility(w, entityId, towerStats) ==
    IF ~HasComponent(w, entityId, "position") THEN w
    ELSE CASE towerStats.specialAbility = Some("areaDamage") -> TriggerAreaDamage(w, entityId, towerStats)
           [] towerStats.specialAbility = Some("chainLightning") -> TriggerChainLightning(w, entityId, towerStats)
           [] OTHER -> w

\* a variant of UpdateSpecialAbilities that triggers whenever attackCooldown
\* allows, whatever specialCooldown is
UpdateSpecialAbilitiesWithAttack(w, entityId, towerStats, deltaSeconds) ==
    LET cooled == IF IsDefined(towerStats.specialAbility) /\ towerStats.specialCooldown > 0
                  THEN [ towerStats EXCEPT !.specialCooldown = @ - deltaSeconds ]
                  ELSE towerStats
    IN IF IsDefined(cooled.specialAbility) /\ cooled.attackCooldown <= 0
       THEN [ world |-> TriggerSpecialAbility(w, entityId, cooled),
              towerStats |-> [ cooled EXCEPT !.specialCooldown = cooled.specialCooldownMax ] ]
       ELSE [ world |-> w, towerStats |-> cooled ]

\* TowerSystem.updateSpecialAbilities
UpdateSpecialAbilities(w, entityId, towerStats, deltaSeconds) ==
    LET cooled == IF IsDefined(towerStats.specialAbility) /\ towerStats.specialCooldown > 0
                  THEN [ towerStats EXCEPT !.specialCooldown = @ - deltaSeconds ]
                  ELSE towerStats
    IN IF IsDefined(cooled.specialAbility) /\ cooled.specialCooldown <= 0
       THEN [ world |-> TriggerSpecialAbility(w, entityId, cooled),
              towerStats |-> [ cooled EXCEPT !.specialCooldown = cooled.specialCooldownMax ] ]
       ELSE [ world |-> w, towerStats |-> cooled ]

\* TowerSystem.updateTower.  The stats object is written in place while the
\* world changes around it: it is stored back when the call ends, if the
\* entity still holds it.
UpdateTower(w, entityId, deltaSeconds) ==
    IF ~HasComponent(w, entityId, "towerStats") \/ ~HasComponent(w, entityId, "position") THEN w
    ELSE LET ts0 == w.components[entityId]["towerStats"]
             ts1 == IF ts0.attackCooldown > 0
                    THEN [ ts0 EXCEPT !.attackCooldown = @ - deltaSeconds ]
                    ELSE ts0
             basic == BasicAttack(w, entityId, ts1)
             special == UpdateSpecialAbilities(basic.world, entityId, basic.towerStats, deltaSeconds)
         IN IF HasComponent(special.world, entityId, "towerStats")
            THEN SetComponent(special.world, entityId, special.towerStats)
            ELSE special.world

RECURSIVE TowerLoop(_, _, _, _)
TowerLoop(w, list, deltaSeconds, i) ==
    IF i > Len(list) THEN w
    ELSE TowerLoop(UpdateTower(w, list[i], deltaSeconds), list, deltaSeconds, i + 1)

\* TowerSystem.update
TowerSystemUpdate(w, deltaTime, list) ==
    { TowerLoop(w, list, DeltaSeconds(deltaTime), 1) }


-----------------------------------------------------------------------------
(* PhysicsSystem *)

\* the body of the loop of PhysicsSystem.update: deltaTime is in milliseconds
ApplyVelocity(w, entityId, deltaTime) ==
    IF ~HasComponent(w, entityId, "position") \/ ~HasComponent(w, entityId, "velocity") THEN w
    ELSE LET position == w.components[entityId]["position"]
             velocity == w.components[entityId]["velocity"]
         IN SetComponent(w, entityId,
                [ position EXCEPT !.x = @ + velocity.dx * deltaTime,
                                  !.y = @ + velocity.dy * deltaTime ])

RECURSIVE PhysicsLoop(_, _, _, _)
PhysicsLoop(w, list, deltaTime, i) ==
    IF i > Len(list) THEN w
    ELSE PhysicsLoop(ApplyVelocity(w, list[i], deltaTime), list, deltaTime, i + 1)

\* PhysicsSystem.update
PhysicsSystemUpdate(w, deltaTime, list) ==
    { PhysicsLoop(w, list, deltaTime, 1) }

-----------------------------------------------------------------------------
(* World: the system loop *)

SystemNames == { "ai", "tower", "combat" }

\* the second argument of each system's super(...) call
RequiredComponents(system) ==
    CASE system = "ai" -> { "position", "aiBehavior" }
      [] system = "tower" -> { "towerStats", "position" }
      [] system = "combat" -> { "health" }
      [] system = "physics" -> { "position", "velocity" }

\* the third argument of each system's super(...) call; System's constructor
\* has two parameters and keeps no priority
DeclaredPriority(system) ==
    CASE system = "ai" -> 30
      [] system = "tower" -> 35
      [] system = "combat" -> 40

\* system.update(deltaTime, entities)
SystemUpdate(system, w, deltaTime, list) ==
    CASE system = "ai" -> AISystemUpdate(w, deltaTime, list)
      [] system = "tower" -> TowerSystemUpdate(w, deltaTime, list)
      [] system = "combat" -> CombatSystemUpdate(w, deltaTime, list)
      [] system = "physics" -> PhysicsSystemUpdate(w, deltaTime, list)

\* the order in which World.update walks World.systems
UpdateOrder(registered) == registered

\* one turn of the loop of World.update
UpdateSystem(w, system, deltaTime) ==
    LET list == GetEntitiesWithComponents(w, RequiredComponents(system))
        called == [ w EXCEPT !.invoked = Append(@, [ system |-> system, entities |-> list ]) ]
    IN SystemUpdate(system, called, deltaTime, list)

RECURSIVE UpdateLoop(_, _, _, _)
UpdateLoop(ws, order, deltaTime, i) ==
    IF i > Len(order) THEN ws
    ELSE UpdateLoop(UNION { IF w.exception # NoException THEN { w }
                            ELSE UpdateSystem(w, order[i], deltaTime)
                            : w \in ws },
                    order, deltaTime, i + 1)

\* World.update: the worlds it can end in
WorldUpdate(w, registered, deltaTime) ==
    UpdateLoop({ w }, UpdateOrder(registered), deltaTime, 1)

-----------------------------------------------------------------------------
(* The host: time, timers *)

\* real time advancing by elapsed milliseconds
Elapse(w, elapsed) ==
    [ w EXCEPT !.timers = [ i \in DOMAIN @ |->
                              [ @[i] EXCEPT !.remaining = Max(0, @ - elapsed) ] ] ]

RemoveAt(s, i) == [ j \in 1..(Len(s) - 1) |-> IF j < i THEN s[j] ELSE s[j + 1] ]

RemoveEntityTypeError == "TypeError: this.world.removeEntity is not a function"

\* the callback handleEntityDeath schedules: `this.world.removeEntity(id)`.
\* World defines no removeEntity, so the call throws and the world is as before.
RemovalCallback(w, entityId) ==
    [ w EXCEPT !.exception = RemoveEntityTypeError ]


-----------------------------------------------------------------------------
(* What the host attaches: component values as factories configure them *)

\* an enemy that is attacking: Health.setInvulnerabilityTime, Damage.setMeleeDamage,
\* Damage.setCriticalStats; the AI fields as AISystem.executeAttack leaves them
Fighter(x, chance, invulnerabilityTime) ==
    { Position(x, 0),
      [ Health(4) EXCEPT !.invulnerabilityTime = invulnerabilityTime ],
      [ Damage(2) EXCEPT !.meleeDamage = Some(2), !.meleeRange = Some(5),
                         !.criticalChance = chance, !.criticalMultiplier = 3 ],
      [ AIBehavior EXCEPT !.currentState = "attack", !.stateTimer = Sec(5),
                          !.isAttacking = TRUE ] }

\* a target carrying the enemy marker
Victim(x) == { Position(x, 0), Health(2), Enemy("grunt", 1) }

\* TowerStats.setDamage, setRange
Tower(x) == { Position(x, 0), [ TowerStats EXCEPT !.damage = 3, !.range = 5 ] }

\* what EnemyFactory.createEnemy attaches, before any patrol point is set
Walker(x) == { Position(x, 0), Velocity(0, 0), Health(4), AIBehavior }

\* what PlayerFactory.createPlayer attaches
Player(x) == { Position(x, 0), Velocity(0, 0) }

Presets ==
    { Fighter(0, 100, 0), Fighter(1, 50, Sec(1)), Fighter(1, 0, Sec(1)),
      Victim(1), Tower(0), Walker(0), Player(2) }

CombatPresets ==
    { Fighter(0, 100, 0), Fighter(1, 0, Sec(1)), Victim(1) }

Amounts == { 1, 2 }
DeltaTimes == { 500, 1000 }

RECURSIVE AddAll(_, _, _)
AddAll(w, entityId, comps) ==
    IF comps = {} THEN w
    ELSE LET c == CHOOSE c \in comps : TRUE
         IN AddAll(AddComponent(w, entityId, c), entityId, comps \ { c })

\* a factory call: createEntity, then addComponent for each component
SpawnEntity(w, comps) ==
    AddAll(CreateEntity(w), w.nextEntityId, comps)

-----------------------------------------------------------------------------
(* EconomySystem: generation rates and their timed boosts *)

ResourceTypes == { "gold", "wood", "stone", "experience" }

\* EconomySystem.initializeEconomy: the rates per second
InitialRates ==
    [ resourceType \in ResourceTypes |->
        CASE resourceType = "gold" -> 10
          [] resourceType = "wood" -> 5
          [] resourceType = "stone" -> 3
          [] OTHER -> 1 ]

\* the callback boostResourceGeneration schedules: it writes back the rate
\* the call has read
BoostTimer(resourceType, currentRate, duration) ==
    [ resourceType |-> resourceType, currentRate |-> currentRate, remaining |-> Sec(duration) ]

\* the rates after `resourceGenerationRates.set(resourceType, rate)`
SetRate(rates, resourceType, rate) == [ rates EXCEPT ![resourceType] = rate ]

\* real time advancing by elapsed milliseconds while boost timers are pending
ElapseBoosts(queue, elapsed) ==
    [ i \in DOMAIN queue |-> [ queue[i] EXCEPT !.remaining = @ - elapsed ] ]

\* the timer the event loop runs next: the one that is due first, the one
\* that was set first among those due at the same time
NextDue(queue, i) ==
    /\ queue[i].remaining <= 0
    /\ \A j \in DOMAIN queue :
          \/ queue[j].remaining > queue[i].remaining
          \/ queue[j].remaining = queue[i].remaining /\ j >= i

-----------------------------------------------------------------------------
(* Actions *)

Init ==
    /\ nextEntityId = 0
    /\ entities = << >>
    /\ isActive = EmptyMap
    /\ components = EmptyMap
    /\ systems = << >>
    /\ timers = << >>
    /\ resourceGenerationRates = InitialRates
    /\ uncaught = NoException
    /\ lastCall = [ op |-> "new World" ]
    /\ ticks = 0
    /\ calls = 0

InSetup == ticks = 0 /\ calls = 0

\* World.addSystem
AddSystem(system) ==
    /\ InSetup
    /\ nextEntityId = 0
    /\ system \notin Range(systems)
    /\ systems' = Append(systems, system)
    /\ lastCall' = [ op |-> "addSystem", system |-> system ]
    /\ UNCHANGED << nextEntityId, entities, isActive, components, timers,
                    resourceGenerationRates, uncaught, ticks, calls >>

\* a factory creating one entity
Spawn(comps) ==
    /\ InSetup
    /\ Install(SpawnEntity(TheWorld, comps))
    /\ lastCall' = [ op |-> "spawn", entityId |-> nextEntityId ]
    /\ UNCHANGED << systems, ticks, calls >>

\* the ids whose health the call brought from above 0 to 0 or below
Zeroed(before, after) ==
    { id \in Range(before.entities) :
        /\ HasComponent(before, id, "health")
        /\ HasComponent(after, id, "health")
        /\ before.components[id]["health"].current > 0
        /\ after.components[id]["health"].current <= 0 }

\* an entity as PlayerFactory.createPlayer builds it: the one the AI is hostile to
IsPlayer(w, id) ==
    /\ w.isActive[id]
    /\ HasComponent(w, id, "position")
    /\ HasComponent(w, id, "velocity")
    /\ ~HasComponent(w, id, "aiBehavior")

\* the idle AI entities with a player closer than their detectionRange
IdleNearHostile(w) ==
    { id \in Range(w.entities) :
        /\ QueryMatches(w, id, { "position", "aiBehavior" })
        /\ w.components[id]["aiBehavior"].currentState = "idle"
        /\ \E p \in Range(w.entities) \ { id } :
              /\ IsPlayer(w, p)
              /\ Distance(w.components[id]["position"].x, w.components[id]["position"].y,
                          w.components[p]["position"].x, w.components[p]["position"].y)
                    < w.components[id]["aiBehavior"].detectionRange }

\* a frame: deltaTime milliseconds have passed and the host calls World.update
Tick(deltaTime) ==
    /\ systems # << >>
    /\ \E w \in WorldUpdate(Elapse(TheWorld, deltaTime), systems, deltaTime) :
          /\ Install(w)
          /\ lastCall' = [ op |-> "update",
                           deltaTime |-> deltaTime,
                           invoked |-> w.invoked,
                           zeroed |-> Zeroed(TheWorld, w),
                           idleNearHostile |-> IdleNearHostile(TheWorld),
                           before |-> components,
                           dealt |-> w.dealt ]
    /\ ticks' = ticks + 1
    /\ UNCHANGED << systems, calls >>

\* a due setTimeout callback runs
FireTimer(i) ==
    /\ timers[i].remaining = 0
    /\ Install(RemovalCallback([ TheWorld EXCEPT !.timers = RemoveAt(@, i) ], timers[i].entityId))
    /\ lastCall' = [ op |-> "removalCallback", entityId |-> timers[i].entityId ]
    /\ UNCHANGED << systems, ticks, calls >>

\* combatSystem.dealDamage(attacker, target, damageAmount) called by outside code
DealDamageCall(attacker, target, damageAmount, roll) ==
    /\ Install(DealDamage(TheWorld, attacker, target, damageAmount, roll))
    /\ lastCall' = [ op |-> "dealDamage",
                     attacker |-> attacker,
                     target |-> target,
                     damageAmount |-> damageAmount,
                     roll |-> roll,
                     before |-> GetComponent(TheWorld, target, "health") ]
    /\ calls' = calls + 1
    /\ UNCHANGED << systems, ticks >>

\* combatSystem.healEntity(entity, healAmount) called by outside code
HealEntityCall(entityId, healAmount) ==
    /\ Install(HealEntity(TheWorld, entityId, healAmount))
    /\ lastCall' = [ op |-> "healEntity", entityId |-> entityId, healAmount |-> healAmount ]
    /\ calls' = calls + 1
    /\ UNCHANGED << systems, ticks >>

\* Health.setInvulnerable
SetInvulnerable(health, invulnerable) ==
    [ health EXCEPT !.isInvulnerable = invulnerable ]

\* health.setInvulnerable(true) called by outside code
SetInvulnerableCall(entityId) ==
    /\ HasComponent(TheWorld, entityId, "health")
    /\ ~components[entityId]["health"].isInvulnerable
    /\ Install(SetComponent(TheWorld, entityId,
                            SetInvulnerable(components[entityId]["health"], TRUE)))
    /\ lastCall' = [ op |-> "setInvulnerable", entityId |-> entityId ]
    /\ calls' = calls + 1
    /\ UNCHANGED << systems, ticks >>

ApiCall ==
    \/ \E attacker, target \in Range(entities), damageAmount \in Amounts, roll \in Rolls :
          DealDamageCall(attacker, target, damageAmount, roll)
    \/ \E entityId \in Range(entities), healAmount \in Amounts : HealEntityCall(entityId, healAmount)
    \/ \E entityId \in Range(entities) : SetInvulnerableCall(entityId)

\* the whole game: every system, every kind of entity
Next ==
    \/ \E system \in SystemNames : AddSystem(system)
    \/ nextEntityId < MaxEntities /\ \E comps \in Presets : Spawn(comps)
    \/ ticks < MaxTicks /\ \E deltaTime \in DeltaTimes : Tick(deltaTime)
    \/ \E i \in DOMAIN timers : FireTimer(i)
    \/ calls < MaxCalls /\ ApiCall

Spec == Init /\ [][Next]_vars

\* combat alone: CombatSystem registered, combatants only
NextCombat ==
    \/ AddSystem("combat")
    \/ nextEntityId < MaxCombatants /\ \E comps \in CombatPresets : Spawn(comps)
    \/ ticks + calls < MaxCombatSteps /\ \E deltaTime \in DeltaTimes : Tick(deltaTime)
    \/ \E i \in DOMAIN timers : FireTimer(i)
    \/ ticks + calls < MaxCombatSteps /\ ApiCall

SpecCombat == Init /\ [][NextCombat]_vars

-----------------------------------------------------------------------------
(* The World alone: createEntity, addComponent, destroy and queries *)

WorldComponents == { Position(0, 0), Position(1, 0), Health(2) }
WorldKinds == { "position", "health" }

\* world.createEntity()
CreateEntityCall ==
    /\ Install(CreateEntity(TheWorld))
    /\ lastCall' = [ op |-> "createEntity", entityId |-> nextEntityId ]
    /\ UNCHANGED << systems, ticks, calls >>

\* world.addComponent(entityId, component); entityId may be an id never created
AddComponentCall(entityId, component) ==
    /\ Install(AddComponent(TheWorld, entityId, component))
    /\ lastCall' = [ op |-> "addComponent", entityId |-> entityId, component |-> component,
                     before |-> components, wasActive |-> isActive ]
    /\ UNCHANGED << systems, ticks, calls >>

\* entity.destroy()
DestroyCall(entityId) ==
    /\ isActive[entityId]
    /\ Install(EntityDestroy(TheWorld, entityId))
    /\ lastCall' = [ op |-> "destroy", entityId |-> entityId ]
    /\ UNCHANGED << systems, ticks, calls >>

\* entity.setActive(active)
SetActiveCall(entityId, active) ==
    /\ isActive[entityId] # active
    /\ Install(SetActive(TheWorld, entityId, active))
    /\ lastCall' = [ op |-> "setActive", entityId |-> entityId, active |-> active ]
    /\ UNCHANGED << systems, ticks, calls >>

\* world.getEntitiesWithComponents(componentTypes)
QueryCall(componentTypes) ==
    /\ lastCall' = [ op |-> "query",
                     componentTypes |-> componentTypes,
                     result |-> GetEntitiesWithComponents(TheWorld, componentTypes) ]
    /\ UNCHANGED << nextEntityId, entities, isActive, components, systems, timers,
                    resourceGenerationRates, uncaught, ticks, calls >>

NextWorld ==
    \/ nextEntityId < MaxWorldEntities /\ CreateEntityCall
    \/ \E entityId \in 0..nextEntityId, component \in WorldComponents :
          AddComponentCall(entityId, component)
    \/ \E entityId \in Range(entities) : DestroyCall(entityId)
    \/ \E entityId \in Range(entities), active \in BOOLEAN : SetActiveCall(entityId, active)
    \/ \E componentTypes \in SUBSET WorldKinds : QueryCall(componentTypes)

SpecWorld == Init /\ [][NextWorld]_vars

-----------------------------------------------------------------------------
(* Tower targeting: towers, enemies of various health, findTarget *)

\* TowerStats.setDamage, setRange, and the targetLowHealth flag set
LowHealthTower(x) ==
    { Position(x, 0),
      [ TowerStats EXCEPT !.damage = 1, !.range = 5, !.targetLowHealth = TRUE ] }

\* an enemy that has lost health: Health.setCurrentHealth
Wounded(x, maxHealth, current) ==
    { Position(x, 0), [ Health(maxHealth) EXCEPT !.current = current ], Enemy("grunt", 1) }

\* a tower of range 0: TowerStats.setRange(0)
PointTower(x) ==
    { Position(x, 0), [ TowerStats EXCEPT !.damage = 3, !.range = 0 ] }

TowerPresets ==
    { LowHealthTower(0), Tower(0), PointTower(0), Victim(0), Wounded(2, 4, 1) }
        \cup { Wounded(x, 4, 1) : x \in { -1, 1 } }
        \cup { Wounded(x, 4, 3) : x \in { -1, 1 } }
        \cup { Wounded(x, 2, 1) : x \in { -1, 1 } }

\* the step of updateTower and triggerChainLightning that picks a target
FindTargetCall(entityId) ==
    /\ QueryMatches(TheWorld, entityId, { "towerStats", "position" })
    /\ lastCall' = [ op |-> "findTarget",
                     entityId |-> entityId,
                     result |-> FindTarget(TheWorld, entityId, components[entityId]["towerStats"]) ]
    /\ UNCHANGED << nextEntityId, entities, isActive, components, systems, timers,
                    resourceGenerationRates, uncaught, ticks, calls >>

NextTower ==
    \/ AddSystem("tower")
    \/ nextEntityId < MaxTowerEntities /\ \E comps \in TowerPresets : Spawn(comps)
    \/ ticks < MaxTowerTicks /\ \E deltaTime \in DeltaTimes : Tick(deltaTime)
    \/ \E entityId \in Range(entities) : FindTargetCall(entityId)

SpecTower == Init /\ [][NextTower]_vars

-----------------------------------------------------------------------------
(* Chain lightning: one tower, a row of enemies *)

\* TowerStats.setRange, setSpecialAbility('chainLightning', ...), setChainLightning(3, 2)
ChainTower(x) ==
    { Position(x, 0),
      [ TowerStats EXCEPT !.range = 5,
                          !.specialAbility = Some("chainLightning"),
                          !.specialDamage = Some(1),
                          !.chainCount = Some(3),
                          !.chainRange = Some(2) ] }

ChainPresets == { ChainTower(0) } \cup { Wounded(x, 4, 4) : x \in { 1, 2, 3, 5, 8 } }

\* the triggerChainLightning step of updateSpecialAbilities
TriggerChainLightningCall(entityId) ==
    /\ QueryMatches(TheWorld, entityId, { "towerStats", "position" })
    /\ components[entityId]["towerStats"].specialAbility = Some("chainLightning")
    /\ Install(TriggerChainLightning(TheWorld, entityId, components[entityId]["towerStats"]))
    /\ lastCall' = [ op |-> "chainLightning", entityId |-> entityId, before |-> components ]
    /\ calls' = calls + 1
    /\ UNCHANGED << systems, ticks >>

NextChain ==
    \/ nextEntityId < MaxChainEntities /\ \E comps \in ChainPresets : Spawn(comps)
    \/ calls < MaxChainCalls /\ \E entityId \in Range(entities) : TriggerChainLightningCall(entityId)

SpecChain == Init /\ [][NextChain]_vars

-----------------------------------------------------------------------------
(* The AI state machine: AISystem and AIBehavior.setState *)

AIStates == { "idle", "patrol", "chase", "attack", "flee" }

\* an enemy given a patrol point and state durations:
\* AIBehavior.setPatrolPoints, setStateDurations
Patroller(x) ==
    { Position(x, 0), Velocity(0, 0), Health(4),
      [ AIBehavior EXCEPT !.patrolPoints = Some(<< [ x |-> 3, y |-> 0 ] >>),
                          !.stateDurations = Some([ s \in { "patrol", "chase" } |-> Sec(1) ]) ] }

AIPresets == { Walker(0), Patroller(0), Fighter(1, 0, 0), Player(2) }

\* aiBehavior.setState(state) called by outside code
SetStateCall(entityId, state) ==
    /\ HasComponent(TheWorld, entityId, "aiBehavior")
    /\ Install(SetComponent(TheWorld, entityId,
                            SetState(components[entityId]["aiBehavior"], state)))
    /\ lastCall' = [ op |-> "setState", entityId |-> entityId, state |-> state,
                     before |-> components ]
    /\ calls' = calls + 1
    /\ UNCHANGED << systems, ticks >>

NextAI ==
    \/ AddSystem("ai")
    \/ nextEntityId < MaxAIEntities /\ \E comps \in AIPresets : Spawn(comps)
    \/ ticks < MaxAITicks /\ \E deltaTime \in DeltaTimes : Tick(deltaTime)
    \/ calls < MaxAICalls /\ \E entityId \in Range(entities), state \in AIStates :
          SetStateCall(entityId, state)

SpecAI == Init /\ [][NextAI]_vars

-----------------------------------------------------------------------------
(* Movement: AISystem followed by PhysicsSystem *)

\* an idle enemy whose Velocity was constructed with dx = 1: new Velocity(id, 1, 0)
Drifter(x) == { Position(x, 0), Velocity(1, 0), Health(4), AIBehavior }

\* an attacking enemy that also holds a Velocity
Striker(x) == Fighter(x, 0, 0) \cup { Velocity(0, 0) }

MovePresets == { Drifter(0), Walker(0), Patroller(0), Striker(1), Player(2) }

NextMove ==
    \/ \E system \in { "ai", "physics" } : AddSystem(system)
    \/ nextEntityId < MaxMoveEntities /\ \E comps \in MovePresets : Spawn(comps)
    \/ ticks < MaxMoveTicks /\ \E deltaTime \in DeltaTimes : Tick(deltaTime)

SpecMove == Init /\ [][NextMove]_vars

-----------------------------------------------------------------------------
(* The invulnerability window: dealDamage calls between CombatSystem ticks *)

\* a target given an invulnerability window of one second: Health.setInvulnerabilityTime
Shielded(x) == { Position(x, 0), [ Health(4) EXCEPT !.invulnerabilityTime = Sec(1) ] }

ShieldPresets == { Shielded(0), Victim(1) }

\* for each entity damaged so far, the milliseconds CombatSystem has processed
\* for it since the last dealDamage that reduced its health
SinceHit == IF "since" \in DOMAIN lastCall THEN lastCall.since ELSE EmptyMap

\* a frame, observed with the time processed since each entity's last hit
ShieldTick(deltaTime) ==
    /\ systems # << >>
    /\ \E w \in WorldUpdate(Elapse(TheWorld, deltaTime), systems, deltaTime) :
          /\ Install(w)
          /\ lastCall' = [ op |-> "update",
                           deltaTime |-> deltaTime,
                           invoked |-> w.invoked,
                           since |-> [ id \in DOMAIN SinceHit |->
                                         IF \E i \in DOMAIN w.invoked :
                                               /\ w.invoked[i].system = "combat"
                                               /\ id \in Range(w.invoked[i].entities)
                                         THEN SinceHit[id] + deltaTime
                                         ELSE SinceHit[id] ] ]
    /\ ticks' = ticks + 1
    /\ UNCHANGED << systems, calls >>

\* combatSystem.dealDamage(attacker, target, damageAmount), observed with the
\* time processed since the target's last hit
ShieldDealDamage(attacker, target, damageAmount, roll) ==
    LET w == DealDamage(TheWorld, attacker, target, damageAmount, roll)
        before == components[target]["health"]
        landed == w.components[target]["health"].current < before.current
    IN /\ HasComponent(TheWorld, target, "health")
       /\ Install(w)
       /\ lastCall' = [ op |-> "dealDamage",
                        target |-> target,
                        damageAmount |-> damageAmount,
                        before |-> before,
                        sinceBefore |-> IF target \in DOMAIN SinceHit
                                        THEN Some(SinceHit[target]) ELSE None,
                        since |-> IF landed
                                  THEN [ id \in DOMAIN SinceHit \cup { target } |->
                                           IF id = target THEN 0 ELSE SinceHit[id] ]
                                  ELSE SinceHit ]
       /\ calls' = calls + 1
       /\ UNCHANGED << systems, ticks >>

NextShield ==
    \/ AddSystem("combat")
    \/ nextEntityId < MaxShieldEntities /\ \E comps \in ShieldPresets : Spawn(comps)
    \/ ticks + calls < MaxShieldSteps /\ \E deltaTime \in DeltaTimes : ShieldTick(deltaTime)
    \/ ticks + calls < MaxShieldSteps
          /\ \E attacker, target \in Range(entities), damageAmount \in Amounts, roll \in Rolls :
                ShieldDealDamage(attacker, target, damageAmount, roll)

SpecShield == Init /\ [][NextShield]_vars

-----------------------------------------------------------------------------
(* Death and revival: CombatSystem ticks over entities at zero health *)

\* Health.revive(healthPercentage), healthPercentage in hundredths
Revive(health, healthPercentage) ==
    [ health EXCEPT !.isDead = FALSE,
                    !.current = (health.max * healthPercentage) \div 100,
                    !.invulnerabilityTimer = health.invulnerabilityTime ]

\* health.revive(healthPercentage) called by outside code
ReviveCall(entityId, healthPercentage) ==
    /\ HasComponent(TheWorld, entityId, "health")
    /\ Install(SetComponent(TheWorld, entityId,
                            Revive(components[entityId]["health"], healthPercentage)))
    /\ lastCall' = [ op |-> "revive", entityId |-> entityId,
                     healthPercentage |-> healthPercentage ]
    /\ calls' = calls + 1
    /\ UNCHANGED << systems, ticks >>

NextDeath ==
    \/ AddSystem("combat")
    \/ nextEntityId < MaxDeathEntities /\ \E comps \in CombatPresets : Spawn(comps)
    \/ ticks + calls < MaxDeathSteps /\ \E deltaTime \in DeltaTimes : Tick(deltaTime)
    \/ \E i \in DOMAIN timers : FireTimer(i)
    \/ ticks + calls < MaxDeathSteps
          /\ \E entityId \in Range(entities), healthPercentage \in { 0, 50 } :
                ReviveCall(entityId, healthPercentage)

SpecDeath == Init /\ [][NextDeath]_vars

-----------------------------------------------------------------------------
(* Melee: who a CombatSystem tick calls dealDamage on *)

\* attacking fighters, one that is not attacking, a target in reach and one
\* beyond the meleeRange of 5
MeleePresets ==
    { Fighter(0, 0, 0), Fighter(1, 0, Sec(1)), Victim(1), Victim(9),
      { IF c.type = "aiBehavior" THEN [ c EXCEPT !.isAttacking = FALSE ] ELSE c
          : c \in Fighter(1, 0, 0) } }

NextMelee ==
    \/ AddSystem("combat")
    \/ nextEntityId < MaxMeleeEntities /\ \E comps \in MeleePresets : Spawn(comps)
    \/ \E entityId \in Range(entities) : DestroyCall(entityId)
    \/ ticks < MaxMeleeTicks /\ \E deltaTime \in DeltaTimes : Tick(deltaTime)

SpecMelee == Init /\ [][NextMelee]_vars

-----------------------------------------------------------------------------
(* Tower cooldown: basic attacks over several ticks *)

\* a tower of range 5 and one of range 0 (TowerStats.setRange), with enemies
\* on the tower's position, in range and out of range
VolleyPresets ==
    { Tower(0),
      { Position(0, 0), [ TowerStats EXCEPT !.damage = 3, !.range = 0 ] },
      Victim(0), Victim(1), Victim(9) }

NextVolley ==
    \/ AddSystem("tower")
    \/ nextEntityId < MaxVolleyEntities /\ \E comps \in VolleyPresets : Spawn(comps)
    \/ \E entityId \in Range(entities), active \in BOOLEAN : SetActiveCall(entityId, active)
    \/ ticks < MaxVolleyTicks /\ \E deltaTime \in DeltaTimes : Tick(deltaTime)

SpecVolley == Init /\ [][NextVolley]_vars

-----------------------------------------------------------------------------
(* Destruction inside a tick: an entity is destroyed after a system has *)
(* captured it in its entity list                                        *)

\* one turn of the loop of World.update in which victim is destroyed right
\* after the query; with skip the system is given the list without victim
UpdateSystemDestroying(w, system, deltaTime, victim, skip) ==
    LET list == GetEntitiesWithComponents(w, RequiredComponents(system))
        called == [ w EXCEPT !.invoked = Append(@, [ system |-> system, entities |-> list ]) ]
    IN SystemUpdate(system, EntityDestroy(called, victim), deltaTime,
                    IF skip THEN SelectSeq(list, LAMBDA id : id # victim) ELSE list)

RECURSIVE UpdateLoopDestroying(_, _, _, _, _, _, _)
UpdateLoopDestroying(ws, order, deltaTime, i, at, victim, skip) ==
    IF i > Len(order) THEN ws
    ELSE UpdateLoopDestroying(
            UNION { IF w.exception # NoException THEN { w }
                    ELSE IF i = at
                         THEN UpdateSystemDestroying(w, order[i], deltaTime, victim, skip)
                         ELSE UpdateSystem(w, order[i], deltaTime)
                    : w \in ws },
            order, deltaTime, i + 1, at, victim, skip)

\* World.update during which victim is destroyed, in the turn of system number at
WorldUpdateDestroying(w, registered, deltaTime, at, victim, skip) ==
    UpdateLoopDestroying({ w }, UpdateOrder(registered), deltaTime, 1, at, victim, skip)

CancelPresets == { Fighter(0, 100, 0), Victim(1), Tower(0), Patroller(0) }

\* a frame in which victim, captured by system number at, is destroyed
TickDestroying(deltaTime, at, victim) ==
    /\ victim \in Range(GetEntitiesWithComponents(TheWorld, RequiredComponents(systems[at])))
    /\ \E w \in WorldUpdateDestroying(Elapse(TheWorld, deltaTime), systems, deltaTime,
                                       at, victim, FALSE) :
          /\ Install(w)
          /\ lastCall' = [ op |-> "updateDestroying",
                           deltaTime |-> deltaTime,
                           invoked |-> w.invoked,
                           at |-> at,
                           victim |-> victim,
                           start |-> Elapse(TheWorld, deltaTime) ]
    /\ ticks' = ticks + 1
    /\ UNCHANGED << systems, calls >>

NextCancel ==
    \/ \E system \in SystemNames : AddSystem(system)
    \/ nextEntityId < MaxCancelEntities /\ \E comps \in CancelPresets : Spawn(comps)
    \/ ticks + calls < MaxCancelSteps
          /\ \E deltaTime \in DeltaTimes, at \in DOMAIN systems, victim \in Range(entities) :
                TickDestroying(deltaTime, at, victim)
    \/ \E entityId \in Range(entities) : DestroyCall(entityId)
    \/ ticks + calls < MaxCancelSteps
          /\ \E attacker, target \in Range(entities), damageAmount \in Amounts, roll \in Rolls :
                DealDamageCall(attacker, target, damageAmount, roll)

SpecCancel == Init /\ [][NextCancel]_vars

-----------------------------------------------------------------------------
(* Properties *)

UpdateDone == lastCall.op = "update"
UpdateCompleted == UpdateDone /\ uncaught = NoException
InvokedSystems == [ i \in DOMAIN lastCall.invoked |-> lastCall.invoked[i].system ]
HealthOf(id) == components[id]["health"]

\* C1: after every completed World.update with CombatSystem and TowerSystem
\* registered, every entity holding a Health component has 0 <= current <= max.
C1_HealthWithinBounds ==
    (UpdateCompleted /\ { "combat", "tower" } \subseteq Range(systems))
        => \A id \in Range(entities) :
              HasComponent(TheWorld, id, "health")
                  => 0 <= HealthOf(id).current /\ HealthOf(id).current <= HealthOf(id).max

\* C2: an entity whose Health.current went from above 0 to 0 or below during a
\* World.update has isDead set when that World.update returns.
C2_DeadWithinTick ==
    (UpdateCompleted /\ "combat" \in Range(systems))
        => \A id \in lastCall.zeroed : HealthOf(id).isDead

\* C3: once the deferred removal callback of a dead entity has run, no query
\* returns that entity any more.
C3_RemovedAfterDeathDelay ==
    lastCall.op = "removalCallback"
        => lastCall.entityId \notin Range(GetEntitiesWithComponents(TheWorld, {}))

C5_AscendingPriority ==
    UpdateDone
        => \A i, j \in DOMAIN InvokedSystems :
              i < j => DeclaredPriority(InvokedSystems[i]) <= DeclaredPriority(InvokedSystems[j])

\* C6: during one World.update each registered system's update is invoked
\* exactly once.
C6_EachSystemOnce ==
    UpdateDone
        => \A system \in Range(systems) :
              Cardinality({ i \in DOMAIN InvokedSystems : InvokedSystems[i] = system }) = 1

DealDamageDone == lastCall.op = "dealDamage" /\ IsDefined(lastCall.before)

\* C7: dealDamage on a target whose invulnerabilityTimer is above 0 leaves the
\* target's current, invulnerabilityTimer and isDead as they were.
C7_InvulnerableTargetUnchanged ==
    (DealDamageDone /\ lastCall.before[1].invulnerabilityTimer > 0)
        => /\ HealthOf(lastCall.target).current = lastCall.before[1].current
           /\ HealthOf(lastCall.target).invulnerabilityTimer = lastCall.before[1].invulnerabilityTimer
           /\ HealthOf(lastCall.target).isDead = lastCall.before[1].isDead

\* such a call, made by an attacker whose hits are always critical
C7_Witness ==
    /\ DealDamageDone
    /\ lastCall.before[1].invulnerabilityTimer > 0
    /\ HasComponent(TheWorld, lastCall.attacker, "damage")
    /\ components[lastCall.attacker]["damage"].criticalChance = 100

\* C8: dealDamage on a target whose isInvulnerable flag is set leaves
\* Health.current unchanged, also when invulnerabilityTimer is 0.
C8_InvulnerableFlagNoOp ==
    (DealDamageDone /\ lastCall.before[1].isInvulnerable)
        => HealthOf(lastCall.target).current = lastCall.before[1].current

PassedInvulnerabilityCheck ==
    /\ DealDamageDone
    /\ ~(lastCall.before[1].invulnerabilityTimer > 0)
    /\ HasComponent(TheWorld, lastCall.attacker, "damage")

Decrease == lastCall.before[1].current - HealthOf(lastCall.target).current

\* C9: for a dealDamage call that passes the invulnerability check, current
\* decreases by amount + amount * criticalMultiplier when the attacker's
\* criticalChance is 1.0, and by amount when it is 0.0.
C9_CriticalDamageExact ==
    PassedInvulnerabilityCheck
        => LET damage == components[lastCall.attacker]["damage"] IN
           /\ damage.criticalChance = 100
                => Decrease = lastCall.damageAmount
                                + lastCall.damageAmount * damage.criticalMultiplier
           /\ damage.criticalChance = 0 => Decrease = lastCall.damageAmount

\* an always-critical hit on a target that the same call made invulnerable
C9_Witness ==
    /\ PassedInvulnerabilityCheck
    /\ components[lastCall.attacker]["damage"].criticalChance = 100
    /\ lastCall.before[1].invulnerabilityTime > 0
    /\ HealthOf(lastCall.target).invulnerabilityTimer > 0

\* C10: an idle AI entity with a hostile closer than its detectionRange is in
\* state chase after the next AISystem update.
C10_IdleChasesHostile ==
    (UpdateDone /\ "ai" \in Range(InvokedSystems))
        => \A id \in lastCall.idleNearHostile :
              components[id]["aiBehavior"].currentState = "chase"

\* the enemies findTarget considers for a tower: matching its query, in range
InRangeOf(tower) ==
    { id \in Range(GetEntitiesWithComponents(TheWorld, EnemyKinds)) :
        Distance(components[tower]["position"].x, components[tower]["position"].y,
                 components[id]["position"].x, components[id]["position"].y)
            <= components[tower]["towerStats"].range }

\* a and b are at the same distance of the tower and carry the same enemy data
EqualButHealth(tower, a, b) ==
    /\ a # b
    /\ components[a]["enemy"] = components[b]["enemy"]
    /\ Distance(components[tower]["position"].x, components[tower]["position"].y,
                components[a]["position"].x, components[a]["position"].y)
         = Distance(components[tower]["position"].x, components[tower]["position"].y,
                    components[b]["position"].x, components[b]["position"].y)

\* current/max of a is below current/max of b
LowerHealthFraction(a, b) ==
    /\ HealthOf(a).max > 0
    /\ HealthOf(b).max > 0
    /\ HealthOf(a).current * HealthOf(b).max < HealthOf(b).current * HealthOf(a).max

FindTargetLowHealthDone ==
    /\ lastCall.op = "findTarget"
    /\ components[lastCall.entityId]["towerStats"].targetLowHealth

Enemies == Range(GetEntitiesWithComponents(TheWorld, EnemyKinds))

PositionDistance(a, b) ==
    Distance(components[a]["position"].x, components[a]["position"].y,
             components[b]["position"].x, components[b]["position"].y)

\* what the call took from the health of id
ChainDamage(id) == lastCall.before[id]["health"].current - HealthOf(id).current

\* the tower has chainCount 3; there are four enemies: a, the tower's primary
\* target, b within chainRange of a, c within chainRange of b, and d, out of
\* the tower's range and farther than chainRange from a, b and c
ChainScene(tower, a, b, c, d) ==
    LET towerStats == lastCall.before[tower]["towerStats"]
        before == [ TheWorld EXCEPT !.components = lastCall.before ]
    IN /\ towerStats.chainCount = Some(3)
       /\ IsDefined(towerStats.chainRange)
       /\ Cardinality({ a, b, c, d }) = 4
       /\ Enemies = { a, b, c, d }
       /\ FindTarget(before, tower, towerStats) = Some(a)
       /\ PositionDistance(a, b) <= towerStats.chainRange[1]
       /\ PositionDistance(b, c) <= towerStats.chainRange[1]
       /\ PositionDistance(tower, d) > towerStats.range
       /\ \A e \in { a, b, c } : PositionDistance(e, d) > towerStats.chainRange[1]

\* C12: a chain-lightning trigger with chainCount 3 on three enemies chained
\* within chainRange and a fourth out of reach takes the special damage from
\* each of the three exactly once and nothing from the fourth.
C12_ChainHitsThree ==
    lastCall.op = "chainLightning"
        => \A a, b, c, d \in Enemies :
              ChainScene(lastCall.entityId, a, b, c, d)
                  => /\ \A e \in { a, b, c } :
                          ChainDamage(e) = SpecialAmount(lastCall.before[lastCall.entityId]["towerStats"], 7)
                     /\ ChainDamage(d) = 0

\* C13: the ids createEntity has returned are strictly increasing, whatever
\* was destroyed in between: the id it returns is above every earlier one.
C13_IdsIncrease ==
    /\ \A i, j \in DOMAIN entities : i < j => entities[i] < entities[j]
    /\ lastCall.op = "createEntity"
          => /\ entities[Len(entities)] = lastCall.entityId
             /\ lastCall.entityId < nextEntityId

\* a createEntity made after an earlier entity was destroyed
C13_Witness ==
    /\ lastCall.op = "createEntity"
    /\ \E id \in Range(entities) : id < lastCall.entityId /\ ~isActive[id] /\ components[id] = EmptyMap

AddComponentDone == lastCall.op = "addComponent" /\ lastCall.entityId \in Range(entities)

C15_NotLiveNoOp ==
    (lastCall.op = "addComponent"
        /\ (lastCall.entityId \notin Range(entities) \/ ~lastCall.wasActive[lastCall.entityId]))
        => uncaught = NoException /\ components = lastCall.before

AIUpdated ==
    UNION { Range(lastCall.invoked[i].entities) :
              i \in { j \in DOMAIN lastCall.invoked : lastCall.invoked[j].system = "ai" } }

AIUpdateDone == UpdateDone /\ "ai" \in Range(InvokedSystems)
AIBefore(id) == lastCall.before[id]["aiBehavior"]
AIAfter(id) == components[id]["aiBehavior"]
StateChanged(id) == AIAfter(id).currentState # AIBefore(id).currentState

\* C18: a change of currentState, by AISystem or by AIBehavior.setState, leaves
\* stateTimer at the duration of the new state and isAttacking cleared, and
\* setState records the state held before in previousState.
C18_StateChangeResets ==
    /\ (lastCall.op = "setState" /\ StateChanged(lastCall.entityId))
          => /\ AIAfter(lastCall.entityId).previousState = AIBefore(lastCall.entityId).currentState
             /\ AIAfter(lastCall.entityId).stateTimer
                  = StateDuration(AIBefore(lastCall.entityId), lastCall.state)
             /\ ~AIAfter(lastCall.entityId).isAttacking
    /\ AIUpdateDone
          => \A id \in AIUpdated :
                StateChanged(id)
                    => /\ AIAfter(id).stateTimer = StateDuration(AIBefore(id), AIAfter(id).currentState)
                       /\ AIAfter(id).currentState # "attack" => ~AIAfter(id).isAttacking

\* C19: when an AISystem update changed an entity's currentState, previousState
\* is the state the entity held when the update began.
C19_OneChangePerTick ==
    AIUpdateDone
        => \A id \in AIUpdated :
              StateChanged(id) => AIAfter(id).previousState = AIBefore(id).currentState

\* the distances from id to the players, in the world the update began with
HostileDistances(id) ==
    LET before == [ TheWorld EXCEPT !.components = lastCall.before ] IN
    { Distance(lastCall.before[id]["position"].x, lastCall.before[id]["position"].y,
               lastCall.before[p]["position"].x, lastCall.before[p]["position"].y) :
        p \in { q \in DOMAIN lastCall.before : q # id /\ IsPlayer(before, q) } }

\* current/max of id, in hundredths, is below (sign < 0) or above (sign > 0)
\* fleeThreshold * halves / 2
HealthFraction(id, sign, halves) ==
    /\ "health" \in DOMAIN lastCall.before[id]
    /\ LET health == lastCall.before[id]["health"]
           bound == health.max * AIBefore(id).fleeThreshold * halves
       IN IF sign < 0 THEN health.current * 200 < bound ELSE health.current * 200 > bound

\* the rows of the transition table
TableRow(id, from, to) ==
    LET ai == AIBefore(id)
        ds == HostileDistances(id)
    IN \/ from = "idle" /\ to = "chase" /\ \E d \in ds : d <= ai.detectionRange
       \/ from = "idle" /\ to = "patrol" /\ ai.stateTimer - DeltaSeconds(lastCall.deltaTime) <= 0
       \/ from = "patrol" /\ to = "chase" /\ \E d \in ds : d <= ai.detectionRange
       \/ from = "chase" /\ to = "idle" /\ \A d \in ds : 2 * d > 3 * ai.detectionRange
       \/ from = "chase" /\ to = "attack" /\ \E d \in ds : d <= ai.attackRange
       \/ from = "attack" /\ to = "idle" /\ ds = {}
       \/ from = "attack" /\ to = "chase" /\ ds # {} /\ \A d \in ds : d > ai.attackRange
       \/ from = "attack" /\ to = "flee" /\ HealthFraction(id, -1, 2)
       \/ from = "flee" /\ to = "idle"
            /\ (HealthFraction(id, 1, 3) \/ (ds # {} /\ \A d \in ds : d > 2 * ai.detectionRange))

\* C20: every change of currentState an AISystem update makes is a row of the
\* transition table; the expiry of stateTimer alone moves no state to idle.
C20_OnlyTableRows ==
    AIUpdateDone
        => \A id \in AIUpdated :
              StateChanged(id)
                  => TableRow(id, AIBefore(id).currentState, AIAfter(id).currentState)

DestroyingDone == lastCall.op = "updateDestroying"

\* the worlds the same frame ends in when the system is never handed the victim
SkippingOutcomes ==
    WorldUpdateDestroying(lastCall.start, systems, lastCall.deltaTime,
                          lastCall.at, lastCall.victim, TRUE)

\* C16: an entity destroyed after a system captured it (or picked as a target
\* after its destruction) is skipped: no exception is raised, it keeps no
\* component and stays inactive, every system is still invoked, and all other
\* entities end exactly as if the destroyed one had not been in the list
C16_DestroyedIsSkipped ==
    /\ DestroyingDone =>
          /\ uncaught = NoException
          /\ components[lastCall.victim] = EmptyMap
          /\ ~isActive[lastCall.victim]
          /\ InvokedSystems = systems
          /\ \E w \in SkippingOutcomes :
                /\ w.components = components
                /\ w.isActive = isActive
                /\ w.timers = timers
                /\ w.nextEntityId = nextEntityId
    /\ (lastCall.op = "dealDamage" /\ ~isActive[lastCall.target]) =>
          /\ uncaught = NoException
          /\ components[lastCall.target] = EmptyMap

\* the entity captured first by the combat system is destroyed, and the one
\* listed after it is still processed (its components advanced by the frame)
C16_Witness ==
    /\ DestroyingDone
    /\ systems[lastCall.at] = "combat"
    /\ lastCall.invoked[lastCall.at].entities = << 0, 1 >>
    /\ lastCall.victim = 0
    /\ components[1] # lastCall.start.components[1]


\* no player within detectionRange of id when the update began
NoHostileInRange(id) ==
    \A d \in HostileDistances(id) : d > AIBefore(id).detectionRange

\* C21: an idle entity with no hostile in detection range whose stateTimer is
\* still positive after the tick's decrement is idle at the end of the
\* AISystem update, whatever the random draw.
C21_IdleUntilTimerExpires ==
    AIUpdateDone
        => \A id \in AIUpdated :
              ( /\ AIBefore(id).currentState = "idle"
                /\ NoHostileInRange(id)
                /\ AIBefore(id).stateTimer - DeltaSeconds(lastCall.deltaTime) > 0 )
                  => AIAfter(id).currentState = "idle"


\* the entities the update found in chase or attack
Pursuing(id) == AIBefore(id).currentState \in { "chase", "attack" }

\* C22: findNearestPlayer yields no target, and an AISystem update that found
\* an entity in chase or attack ends without an exception, with that entity
\* in idle and isAttacking false.
C22_NoTargetEndsIdle ==
    AIUpdateDone
        => \A id \in AIUpdated :
              Pursuing(id)
                  => /\ uncaught = NoException
                     /\ AIAfter(id).currentState = "idle"
                     /\ ~AIAfter(id).isAttacking


\* the AI entities of the last update holding a Velocity and ending it in state
EndingIn(states) ==
    { id \in AIUpdated :
        /\ "velocity" \in DOMAIN components[id]
        /\ AIAfter(id).currentState \in states }

\* PhysicsSystem ran after AISystem in the last World.update
PhysicsFollowed ==
    \E i, j \in DOMAIN lastCall.invoked :
        i < j /\ lastCall.invoked[i].system = "ai" /\ lastCall.invoked[j].system = "physics"

\* C23: after an AISystem update an entity with a Velocity that ends the tick
\* in idle or attack has dx = 0 and dy = 0, so the PhysicsSystem update that
\* follows leaves its Position as it was; one ending in attack has isAttacking.
C23_IdleAndAttackStandStill ==
    (AIUpdateDone /\ UpdateCompleted)
        => /\ \A id \in EndingIn({ "idle", "attack" }) :
                /\ components[id]["velocity"].dx = 0
                /\ components[id]["velocity"].dy = 0
                /\ PhysicsFollowed
                     => components[id]["position"] = lastCall.before[id]["position"]
           /\ \A id \in EndingIn({ "attack" }) : AIAfter(id).isAttacking


\* the velocity of id as the AISystem reads and writes it: velocity.x and
\* velocity.y once assigned, the constructed vector before that
VelocityIs(id, vx, vy) ==
    LET velocity == components[id]["velocity"] IN
    \/ velocity.x = Some(vx) /\ velocity.y = Some(vy)
    \/ velocity.x = None /\ velocity.y = None /\ velocity.dx = vx /\ velocity.dy = vy

\* zero at distance zero, else speed along (dx, dy) / distance
SteeredBy(id, dx, dy, speed) ==
    LET distance == Sqrt(dx * dx + dy * dy) IN
    IF distance = 0 THEN VelocityIs(id, 0, 0)
    ELSE VelocityIs(id, (dx * speed) \div distance, (dy * speed) \div distance)

\* the waypoint a patrolling entity steers to after the update, if it has one
Waypoint(id) ==
    IF IsDefined(AIAfter(id).patrolPoints)
    THEN PatrolPointAt(AIAfter(id).patrolPoints[1], AIAfter(id).currentPatrolIndex)
    ELSE None

\* the players nearest to id after the update
NearestPlayers(id) ==
    LET players == { p \in Range(entities) \ { id } : IsPlayer(TheWorld, p) }
        far(p) == Distance(components[id]["position"].x, components[id]["position"].y,
                           components[p]["position"].x, components[p]["position"].y)
    IN { p \in players : \A q \in players : far(p) <= far(q) }

\* C24: after an AISystem update an entity in patrol, chase or flee has zero
\* velocity when it stands on its steering target, and otherwise a velocity of
\* the state's speed toward the waypoint or the nearest hostile (away from it
\* in flee).
C24_SteeringNormalized ==
    (AIUpdateDone /\ UpdateCompleted)
        => /\ \A id \in EndingIn({ "patrol" }) :
                IsDefined(Waypoint(id))
                    => SteeredBy(id, Waypoint(id)[1].x - components[id]["position"].x,
                                     Waypoint(id)[1].y - components[id]["position"].y,
                                     AIAfter(id).patrolSpeed)
           /\ \A id \in EndingIn({ "chase" }) : \A p \in NearestPlayers(id) :
                SteeredBy(id, components[p]["position"].x - components[id]["position"].x,
                              components[p]["position"].y - components[id]["position"].y,
                              AIAfter(id).chaseSpeed)
           /\ \A id \in EndingIn({ "flee" }) : \A p \in NearestPlayers(id) :
                SteeredBy(id, components[id]["position"].x - components[p]["position"].x,
                              components[id]["position"].y - components[p]["position"].y,
                              AIAfter(id).fleeSpeed)


\* the AI entities with Position and Velocity that the last update left in
\* patrol with patrolPoints unset or empty
PatrollingNowhere ==
    { id \in EndingIn({ "patrol" }) :
        \/ ~IsDefined(AIAfter(id).patrolPoints)
        \/ AIAfter(id).patrolPoints[1] = << >> }

\* C25: a World.update in which an AI entity is in patrol with patrolPoints
\* unset or empty throws nothing and invokes every registered system.
C25_PatrolWithoutPointsIsSafe ==
    (AIUpdateDone /\ PatrollingNowhere # {})
        => /\ uncaught = NoException
           /\ InvokedSystems = systems


\* a dealDamage call on a target with an invulnerability window that an
\* earlier dealDamage had already damaged
DamagedAgain ==
    /\ lastCall.op = "dealDamage"
    /\ "sinceBefore" \in DOMAIN lastCall
    /\ IsDefined(lastCall.sinceBefore)
    /\ lastCall.before.invulnerabilityTime > 0

\* C26: on a target with invulnerability window W that a dealDamage has
\* damaged, a further dealDamage leaves current unchanged while CombatSystem
\* has processed less than W seconds of ticks since that hit, and reduces
\* current once it has processed W seconds or more.
C26_WindowThenDamage ==
    DamagedAgain
        => IF lastCall.sinceBefore[1] < lastCall.before.invulnerabilityTime
           THEN HealthOf(lastCall.target).current = lastCall.before.current
           ELSE HealthOf(lastCall.target).current < lastCall.before.current

\* a call made when the ticks since the last hit total exactly the window
\* reduces current and opens the window again
C26_Witness ==
    /\ DamagedAgain
    /\ lastCall.sinceBefore[1] = lastCall.before.invulnerabilityTime
    /\ lastCall.before.invulnerabilityTimer = 0
    /\ HealthOf(lastCall.target).current < lastCall.before.current
    /\ HealthOf(lastCall.target).invulnerabilityTimer = lastCall.before.invulnerabilityTime


\* the removals pending for id in a timer queue
TimersFor(queue, id) ==
    Cardinality({ i \in DOMAIN queue : queue[i].entityId = id })

\* id holds a Health marked dead in comps
DeadIn(comps, id) ==
    /\ "health" \in DOMAIN comps[id]
    /\ comps[id]["health"].isDead

\* C27: a step schedules at most one removal for an entity, and schedules it
\* exactly when it turns the entity's isDead from false to true; ticks over an
\* entity that is already dead schedule nothing, until revive clears isDead.
C27_DeathOncePerDeath ==
    [][ \A id \in Range(entities) :
          LET scheduled == TimersFor(timers', id) - TimersFor(timers, id) IN
          /\ scheduled <= 1
          /\ scheduled = 1 <=> (~DeadIn(components, id) /\ DeadIn(components', id)) ]_vars

\* a tick over an entity that was already dead with current <= 0: it is still
\* dead and exactly one removal is pending for it
C27_Witness ==
    /\ UpdateDone
    /\ \E id \in Range(entities) :
          /\ DeadIn(lastCall.before, id)
          /\ lastCall.before[id]["health"].current <= 0
          /\ DeadIn(components, id)
          /\ HealthOf(id).current <= 0
          /\ TimersFor(timers, id) = 1


\* the entities CombatSystem was given in the last World.update
CombatUpdated ==
    UNION { Range(lastCall.invoked[i].entities) :
              i \in { j \in DOMAIN lastCall.invoked : lastCall.invoked[j].system = "combat" } }

\* the world the last update began with
WorldBefore == [ TheWorld EXCEPT !.components = lastCall.before ]

\* a holds Damage and Health, has a meleeRange and is attacking
MeleeAttacker(a) ==
    /\ a \in CombatUpdated
    /\ { "damage", "health", "aiBehavior" } \subseteq DOMAIN lastCall.before[a]
    /\ Truthy(lastCall.before[a]["damage"].meleeRange)
    /\ lastCall.before[a]["aiBehavior"].isAttacking

\* t is an active entity with Health and Position within the meleeRange of a
InMeleeReach(a, t) ==
    /\ isActive[t]
    /\ { "health", "position" } \subseteq DOMAIN lastCall.before[t]
    /\ "position" \in DOMAIN lastCall.before[a]
    /\ Distance(lastCall.before[a]["position"].x, lastCall.before[a]["position"].y,
                lastCall.before[t]["position"].x, lastCall.before[t]["position"].y)
          <= lastCall.before[a]["damage"].meleeRange[1]

\* how often the last update called dealDamage(a, t)
DealtTo(a, t) ==
    Cardinality({ i \in DOMAIN lastCall.dealt :
                    lastCall.dealt[i] = [ attacker |-> a, target |-> t ] })

\* C28: in a CombatSystem tick dealDamage(a, t) is called exactly once when a
\* holds Damage and Health, has a meleeRange and is attacking and t is another
\* active entity with Health and Position at most meleeRange away, and is not
\* called otherwise.
C28_MeleeExactlyInReach ==
    (UpdateDone /\ systems = << "combat" >>)
        => \A a, t \in DOMAIN lastCall.before :
              DealtTo(a, t) = IF MeleeAttacker(a) /\ t # a /\ InMeleeReach(a, t) THEN 1 ELSE 0

\* an attacker hit the target in reach once, and neither the target beyond its
\* meleeRange nor itself
C28_Witness ==
    /\ UpdateDone
    /\ systems = << "combat" >>
    /\ \E a, near, far \in DOMAIN lastCall.before :
          /\ MeleeAttacker(a)
          /\ near # a /\ InMeleeReach(a, near) /\ DealtTo(a, near) = 1
          /\ far # a /\ isActive[far] /\ ~InMeleeReach(a, far) /\ DealtTo(a, far) = 0
          /\ "health" \in DOMAIN lastCall.before[far]
          /\ DealtTo(a, a) = 0


\* a World.update with TowerSystem as the only system
TowerUpdateDone == UpdateDone /\ systems = << "tower" >>

\* the towers TowerSystem was given in the last World.update
TowerUpdated ==
    UNION { Range(lastCall.invoked[i].entities) :
              i \in { j \in DOMAIN lastCall.invoked : lastCall.invoked[j].system = "tower" } }

TowerBefore(id) == lastCall.before[id]["towerStats"]
TowerAfter(id) == components[id]["towerStats"]

\* attackCooldown after the decrement of the last update
Cooled(id) ==
    IF TowerBefore(id).attackCooldown > 0
    THEN TowerBefore(id).attackCooldown - DeltaSeconds(lastCall.deltaTime)
    ELSE TowerBefore(id).attackCooldown

\* the basic attacks of id in the last update, as attackTarget counts them
Attacks(id) == TowerAfter(id).kills - TowerBefore(id).kills

\* C29: in a tick a tower makes at most one basic attack, and only when
\* attackCooldown is <= 0 after the decrement; after an attack attackCooldown
\* equals attackRate, and a tick without an attack lowers a positive
\* attackCooldown by exactly the tick's seconds, so that two attacks are at
\* least attackRate seconds of ticks apart.
C29_OneAttackPerCooldown ==
    TowerUpdateDone
        => \A id \in TowerUpdated :
              /\ Attacks(id) \in { 0, 1 }
              /\ Attacks(id) = 1
                    => /\ Cooled(id) <= 0
                       /\ TowerAfter(id).attackCooldown = TowerAfter(id).attackRate
              /\ Attacks(id) = 0 => TowerAfter(id).attackCooldown = Cooled(id)

\* the second of two consecutive attacks, made by the tick that completes
\* attackRate seconds since the first
C29_Witness ==
    /\ TowerUpdateDone
    /\ \E id \in TowerUpdated :
          /\ TowerBefore(id).kills = 1
          /\ TowerBefore(id).attackCooldown = TowerBefore(id).attackRate
          /\ DeltaSeconds(lastCall.deltaTime) = TowerBefore(id).attackRate
          /\ Attacks(id) = 1

\* C30: a ready tower with no enemy in range keeps attackCooldown,
\* totalDamageDealt and kills, and when no tower can attack no Health changes
\* and no entity is created; a ready tower with an enemy in range attacks.
C30_IdleUntilEnemyInRange ==
    TowerUpdateDone
        => /\ \A id \in TowerUpdated :
                Cooled(id) <= 0
                    => IF InRangeOf(id) = {}
                       THEN /\ TowerAfter(id).attackCooldown = Cooled(id)
                            /\ TowerAfter(id).totalDamageDealt = TowerBefore(id).totalDamageDealt
                            /\ TowerAfter(id).kills = TowerBefore(id).kills
                       ELSE Attacks(id) = 1
           /\ (\A id \in TowerUpdated : Cooled(id) > 0 \/ InRangeOf(id) = {})
                => /\ DOMAIN components = DOMAIN lastCall.before
                   /\ \A e \in DOMAIN lastCall.before :
                        "health" \in DOMAIN lastCall.before[e]
                            => HealthOf(e) = lastCall.before[e]["health"]


\* the score findTarget gives candidate id of a tower
ScoreOf(tower, id) ==
    CalculateTargetPriority(TheWorld, id,
        Distance(components[tower]["position"].x, components[tower]["position"].y,
                 components[id]["position"].x, components[id]["position"].y),
        components[tower]["towerStats"])

\* the place of id in the order of the query of findTarget
QueryIndex(id) ==
    CHOOSE i \in DOMAIN GetEntitiesWithComponents(TheWorld, EnemyKinds) :
        GetEntitiesWithComponents(TheWorld, EnemyKinds)[i] = id

FindTargetDone == lastCall.op = "findTarget"

\* C31: findTarget returns null when no candidate (active, with Health,
\* Position and the enemy marker) is within the tower's range; otherwise it
\* returns an in-range candidate of maximum score, the first one in query
\* order among those of equal score.
C31_FindTargetReturnsBest ==
    FindTargetDone
        => LET tower == lastCall.entityId
               candidates == InRangeOf(tower)
           IN IF candidates = {} THEN lastCall.result = None
              ELSE \E t \in candidates :
                      /\ lastCall.result = Some(t)
                      /\ \A o \in candidates :
                            /\ ~ScoreGreater(ScoreOf(tower, o), ScoreOf(tower, t))
                            /\ ~ScoreGreater(ScoreOf(tower, t), ScoreOf(tower, o))
                                  => QueryIndex(t) <= QueryIndex(o)

\* findTarget has found the best of two candidates of different scores, and
\* the first of two candidates of equal score
C31_BestOfTwo ==
    /\ FindTargetDone
    /\ \E a, b \in InRangeOf(lastCall.entityId) :
          /\ ScoreGreater(ScoreOf(lastCall.entityId, b), ScoreOf(lastCall.entityId, a))
          /\ a < b
          /\ lastCall.result = Some(b)


-----------------------------------------------------------------------------
(* Special abilities: area-damage towers over several ticks *)

\* TowerStats.setDamage(4), setRange(1), setAttackRate(1) and
\* setSpecialAbility('areaDamage', 1, damage, 3): damage is None when the
\* argument is left out
AreaTower(x, damage) ==
    { Position(x, 0),
      [ TowerStats EXCEPT !.damage = 4, !.range = 1,
                          !.specialAbility = Some("areaDamage"),
                          !.specialCooldownMax = Sec(1),
                          !.specialCooldown = 0,
                          !.specialDamage = damage,
                          !.specialRange = Some(3) ] }

\* an entity with health and a position that is no enemy
Bystander(x) == { Position(x, 0), Health(4) }

SpecialPresets ==
    { AreaTower(0, Some(1)), AreaTower(0, Some(0)), AreaTower(0, None), Tower(0),
      Wounded(0, 8, 8), Wounded(2, 8, 8), Wounded(9, 8, 8), Bystander(2) }

\* the triggerAreaDamage step of updateSpecialAbilities
TriggerAreaDamageCall(entityId) ==
    /\ QueryMatches(TheWorld, entityId, { "towerStats", "position" })
    /\ components[entityId]["towerStats"].specialAbility = Some("areaDamage")
    /\ Install(TriggerAreaDamage(TheWorld, entityId, components[entityId]["towerStats"]))
    /\ lastCall' = [ op |-> "areaDamage", entityId |-> entityId, before |-> components ]
    /\ calls' = calls + 1
    /\ UNCHANGED << systems, ticks >>

NextSpecial ==
    \/ AddSystem("tower")
    \/ nextEntityId < MaxSpecialEntities /\ \E comps \in SpecialPresets : Spawn(comps)
    \/ ticks + calls < MaxSpecialSteps /\ \E deltaTime \in DeltaTimes : Tick(deltaTime)
    \/ ticks + calls < MaxSpecialSteps
          /\ \E entityId \in Range(entities) : TriggerAreaDamageCall(entityId)

SpecSpecial == Init /\ [][NextSpecial]_vars


RECURSIVE SumOf(_, _)
\* the sum of f[x] over the x of S
SumOf(f, S) ==
    IF S = {} THEN 0
    ELSE LET x == CHOOSE y \in S : TRUE IN f[x] + SumOf(f, S \ { x })

\* the updated towers that have a special ability
SpecialTowers == { id \in TowerUpdated : IsDefined(TowerBefore(id).specialAbility) }

\* specialCooldown after the decrement of the last update
SpecialCooled(id) ==
    IF TowerBefore(id).specialCooldown > 0
    THEN TowerBefore(id).specialCooldown - DeltaSeconds(lastCall.deltaTime)
    ELSE TowerBefore(id).specialCooldown

\* the towers whose ability is due in the last update
DueTowers == { id \in SpecialTowers : SpecialCooled(id) <= 0 }

\* the enemies that are out of the basic range of every updated tower
OutOfBasicRange == { e \in Enemies : \A id \in TowerUpdated : e \notin InRangeOf(id) }

\* e is within specialRange of tower id
InSpecialRange(id, e) ==
    WithinOptional(PositionDistance(id, e), TowerBefore(id).specialRange)

HealthLoss(e) == lastCall.before[e]["health"].current - HealthOf(e).current

\* C32: a tower with a special ability triggers it exactly in the ticks where
\* specialCooldown is <= 0 after its decrement, and specialCooldown equals
\* specialCooldownMax right after; a tick without a trigger leaves the
\* decremented specialCooldown.  The special step leaves attackCooldown as the
\* basic-attack step set it, and a tower without an ability keeps its
\* specialCooldown.
C32_SpecialOnOwnCooldown ==
    TowerUpdateDone
        => /\ \A id \in SpecialTowers :
                /\ TowerAfter(id).specialCooldown =
                      IF id \in DueTowers THEN TowerAfter(id).specialCooldownMax
                      ELSE SpecialCooled(id)
                /\ TowerAfter(id).attackCooldown =
                      IF Attacks(id) = 1 THEN TowerAfter(id).attackRate ELSE Cooled(id)
           /\ \A id \in TowerUpdated \ SpecialTowers :
                TowerAfter(id).specialCooldown = TowerBefore(id).specialCooldown
           /\ \A e \in OutOfBasicRange :
                HealthLoss(e) =
                    SumOf([ id \in DueTowers |-> SpecialAmount(TowerBefore(id), 5) ],
                          { id \in DueTowers : InSpecialRange(id, e) })

\* a second trigger, in the tick that brings specialCooldown to 0, hits an
\* enemy that no basic attack reaches; the tower's basic attack is not ready
C32_Witness ==
    /\ TowerUpdateDone
    /\ \E id \in DueTowers, e \in OutOfBasicRange :
          /\ TowerBefore(id).specialCooldown > 0
          /\ InSpecialRange(id, e)
          /\ HealthLoss(e) > 0
          /\ TowerAfter(id).attackCooldown > 0

\* a tick in which an ability is not due although the basic attack is ready
C32_NotDue ==
    /\ TowerUpdateDone
    /\ \E id \in SpecialTowers \ DueTowers, e \in OutOfBasicRange :
          /\ InSpecialRange(id, e)
          /\ Cooled(id) <= 0


AreaDamageDone == lastCall.op = "areaDamage"

\* what the area damage of a tower is to take from an enemy: the configured
\* specialDamage, half of damage when none is configured
ConfiguredAreaAmount(towerStats) ==
    IF IsDefined(towerStats.specialDamage) THEN towerStats.specialDamage[1]
    ELSE (towerStats.damage * 5) \div 10

\* C33: an areaDamage trigger takes specialDamage from Health.current of every
\* enemy within specialRange of the tower whenever specialDamage is configured,
\* a configured 0 included, and half of damage only when it is not configured;
\* enemies out of specialRange and entities without the enemy marker keep
\* their health.
C33_AreaDamageAmount ==
    AreaDamageDone
        => \A e \in DOMAIN lastCall.before :
              "health" \in DOMAIN lastCall.before[e]
                  => HealthLoss(e) =
                        IF e \in Enemies /\ InSpecialRange(lastCall.entityId, e)
                        THEN ConfiguredAreaAmount(lastCall.before[lastCall.entityId]["towerStats"])
                        ELSE 0

\* a trigger with a positive specialDamage, an enemy in specialRange, one out
\* of it and an entity in specialRange that is no enemy
C33_Configured ==
    /\ AreaDamageDone
    /\ Truthy(lastCall.before[lastCall.entityId]["towerStats"].specialDamage)
    /\ \E e \in Enemies : InSpecialRange(lastCall.entityId, e) /\ HealthLoss(e) > 0
    /\ \E e \in DOMAIN components \ Enemies :
          "health" \in DOMAIN components[e] /\ InSpecialRange(lastCall.entityId, e)

\* a trigger with specialDamage configured as 0 has taken health
C33_ZeroTakesHalfDamage ==
    /\ AreaDamageDone
    /\ lastCall.before[lastCall.entityId]["towerStats"].specialDamage = Some(0)
    /\ \E e \in Enemies : HealthLoss(e) = 2


ChainLightningDone == lastCall.op = "chainLightning"

\* C34: within one chain-lightning trigger no enemy is damaged more than
\* once, so that with only two enemies, within chainRange of one another and
\* one of them the tower's target, and chainCount 3 exactly two damage
\* applications occur.
C34_NoEnemyHitTwice ==
    ChainLightningDone
        => LET towerStats == lastCall.before[lastCall.entityId]["towerStats"]
               amount == SpecialAmount(towerStats, 7)
           IN /\ \A e \in Enemies : ChainDamage(e) \in { 0, amount }
              /\ \A a, b \in Enemies :
                    ( /\ Enemies = { a, b } /\ a # b
                      /\ towerStats.chainCount = Some(3)
                      /\ WithinOptional(PositionDistance(a, b), towerStats.chainRange)
                      /\ FindTarget([ TheWorld EXCEPT !.components = lastCall.before ],
                                    lastCall.entityId, towerStats) = Some(a) )
                        => ChainDamage(a) + ChainDamage(b) = 2 * amount

\* the chain has gone back to an enemy it had hit already
C34_HitTwice ==
    /\ ChainLightningDone
    /\ \E e \in Enemies :
          ChainDamage(e) = 2 * SpecialAmount(lastCall.before[lastCall.entityId]["towerStats"], 7)


\* the entities whose Health.current the last update brought from above 0 to
\* 0 or below
BroughtDown ==
    { e \in DOMAIN lastCall.before \cap DOMAIN components :
        /\ "health" \in DOMAIN lastCall.before[e]
        /\ "health" \in DOMAIN components[e]
        /\ lastCall.before[e]["health"].current > 0
        /\ HealthOf(e).current <= 0 }

\* C38: kills counts kills only: in an update in which the towers make basic
\* attacks and nothing else changes health, kills rises over all towers by no
\* more than the number of enemies brought to 0 or below.
C38_KillsCountKills ==
    TowerUpdateDone
        => SumOf([ id \in TowerUpdated |-> Attacks(id) ], TowerUpdated)
              <= Cardinality(BroughtDown)

\* a tower has attacked an enemy that was at 0 or below already, and counted it
C38_KillCountedTwice ==
    /\ TowerUpdateDone
    /\ BroughtDown = {}
    /\ \E id \in TowerUpdated : TowerAfter(id).kills = 2


\* the entities that hold a Health with isDead set
DeadNow == { e \in DOMAIN components : "health" \in DOMAIN components[e] /\ HealthOf(e).isDead }

\* C36: while an entity's isDead flag stays set and the entity is not removed,
\* no step raises its Health.current: neither a tick's regeneration nor
\* healEntity heals a dead entity.
C36_DeadNeverHealed ==
    [][ \A e \in DeadNow :
          ( /\ e \in DOMAIN components'
            /\ "health" \in DOMAIN components'[e]
            /\ components'[e]["health"].isDead )
              => components'[e]["health"].current <= HealthOf(e).current ]_vars

\* healEntity has been called on an entity that is dead and is above 0 again
C36_DeadHealed ==
    /\ lastCall.op = "healEntity"
    /\ lastCall.entityId \in DeadNow
    /\ HealthOf(lastCall.entityId).current > 0


\* the entities that were marked dead when the last update began
DeadBefore == { e \in DOMAIN lastCall.before : DeadIn(lastCall.before, e) }

\* C37: an entity that is marked isDead when a tick begins takes no part in
\* the tick's combat: no dealDamage call of the tick has it as attacker or as
\* target, and the tick does not lower its health.
C37_DeadOutOfCombat ==
    (UpdateDone /\ systems = << "combat" >>)
        => \A e \in DeadBefore :
              /\ \A o \in DOMAIN lastCall.before : DealtTo(e, o) = 0 /\ DealtTo(o, e) = 0
              /\ e \in DOMAIN components /\ "health" \in DOMAIN components[e]
                    => HealthOf(e).current >= lastCall.before[e]["health"].current

\* a tick has hit an entity that was dead already and awaits its removal
C37_DeadHitAgain ==
    /\ UpdateDone /\ systems = << "combat" >>
    /\ \E e \in DeadBefore, o \in DOMAIN lastCall.before :
          /\ DealtTo(o, e) = 1
          /\ TimersFor(timers, e) = 1
          /\ HealthOf(e).current < lastCall.before[e]["health"].current


-----------------------------------------------------------------------------
(* Component setters called by factories and outside code *)

\* TowerStats.setDamage
SetDamage(towerStats, damage) == [ towerStats EXCEPT !.damage = Max(0, damage) ]

\* TowerStats.setRange
SetRange(towerStats, range) == [ towerStats EXCEPT !.range = Max(0, range) ]

\* TowerStats.setAttackRate: the rate is in seconds, at least 0.1
SetAttackRate(towerStats, rate) == [ towerStats EXCEPT !.attackRate = Max(100, Sec(rate)) ]

\* AIBehavior.setDetectionRange
SetDetectionRange(aiBehavior, range) == [ aiBehavior EXCEPT !.detectionRange = Max(0, range) ]

\* AIBehavior.setAttackRange
SetAttackRange(aiBehavior, range) == [ aiBehavior EXCEPT !.attackRange = Max(0, range) ]

\* Damage.setBaseDamage
SetBaseDamage(damage, amount) == [ damage EXCEPT !.baseDamage = amount ]

\* Damage.setMeleeDamage
SetMeleeDamage(damage, amount, range) ==
    [ damage EXCEPT !.meleeDamage = Some(amount), !.meleeRange = Some(range) ]

\* Damage.setRangedDamage
SetRangedDamage(damage, amount, range, cooldown) ==
    [ damage EXCEPT !.rangedDamage = Some(amount), !.rangedRange = Some(range),
                    !.rangedCooldown = Some(Sec(cooldown)),
                    !.rangedCooldownMax = Some(Sec(cooldown)) ]

\* Health.setMaxHealth
SetMaxHealth(health, maxHealth) ==
    [ health EXCEPT !.max = maxHealth,
                    !.current = IF @ > maxHealth THEN maxHealth ELSE @ ]

Setters ==
    { "setDamage", "setRange", "setAttackRate", "setDetectionRange", "setAttackRange",
      "setBaseDamage", "setMeleeDamage", "setRangedDamage", "setMaxHealth" }

\* the kind of component a setter belongs to
SetterKind(setter) ==
    CASE setter \in { "setDamage", "setRange", "setAttackRate" } -> "towerStats"
      [] setter \in { "setDetectionRange", "setAttackRange" } -> "aiBehavior"
      [] setter \in { "setBaseDamage", "setMeleeDamage", "setRangedDamage" } -> "damage"
      [] OTHER -> "health"

\* component.setter(a) or component.setter(a, b) or component.setter(a, b, 1)
ApplySetter(component, setter, a, b) ==
    CASE setter = "setDamage" -> SetDamage(component, a)
      [] setter = "setRange" -> SetRange(component, a)
      [] setter = "setAttackRate" -> SetAttackRate(component, a)
      [] setter = "setDetectionRange" -> SetDetectionRange(component, a)
      [] setter = "setAttackRange" -> SetAttackRange(component, a)
      [] setter = "setBaseDamage" -> SetBaseDamage(component, a)
      [] setter = "setMeleeDamage" -> SetMeleeDamage(component, a, b)
      [] setter = "setRangedDamage" -> SetRangedDamage(component, a, b, 1)
      [] OTHER -> SetMaxHealth(component, a)

\* the arguments of the setters: negative, zero and positive
SetterValues == { -2, 0, 3 }

\* an entity.getComponent(kind).setter(...) made by a factory or outside code
SetterCall(entityId, setter, a, b) ==
    /\ HasComponent(TheWorld, entityId, SetterKind(setter))
    /\ Install(SetComponent(TheWorld, entityId,
                            ApplySetter(components[entityId][SetterKind(setter)], setter, a, b)))
    /\ lastCall' = [ op |-> setter, entityId |-> entityId, a |-> a, b |-> b ]
    /\ calls' = calls + 1
    /\ UNCHANGED << systems, ticks >>

SetterPresets == { Tower(0), Walker(0), Fighter(0, 0, 0) }

NextSetters ==
    \/ nextEntityId < MaxSetterEntities /\ \E comps \in SetterPresets : Spawn(comps)
    \/ calls < MaxSetterCalls
          /\ \E entityId \in Range(entities), setter \in Setters, a, b \in SetterValues :
                SetterCall(entityId, setter, a, b)

SpecSetters == Init /\ [][NextSetters]_vars

\* TowerStats.range, AIBehavior.detectionRange and attackRange are never
\* negative
ClampedRanges ==
    \A e \in DOMAIN components :
        /\ "towerStats" \in DOMAIN components[e] => components[e]["towerStats"].range >= 0
        /\ "aiBehavior" \in DOMAIN components[e]
              => /\ components[e]["aiBehavior"].detectionRange >= 0
                 /\ components[e]["aiBehavior"].attackRange >= 0

\* C35: after any sequence of setter calls, with negative arguments too,
\* TowerStats.range, AIBehavior.detectionRange and attackRange, Damage.meleeRange
\* and rangedRange and Health.max are all >= 0.
C35_RangesClamped ==
    /\ ClampedRanges
    /\ \A e \in DOMAIN components :
          /\ "damage" \in DOMAIN components[e]
                => /\ OrElse(components[e]["damage"].meleeRange, 0) >= 0
                   /\ OrElse(components[e]["damage"].rangedRange, 0) >= 0
          /\ "health" \in DOMAIN components[e] => HealthOf(e).max >= 0

\* a setter has been given a negative range and has stored it
C35_NegativeStored ==
    /\ lastCall.op \in { "setMeleeDamage", "setRangedDamage", "setMaxHealth" }
    /\ ~C35_RangesClamped

\* a clamping setter has been given a negative range
C35_NegativeClamped ==
    /\ lastCall.op \in { "setRange", "setDetectionRange", "setAttackRange" }
    /\ lastCall.a < 0


-----------------------------------------------------------------------------
(* Economy: overlapping boosts of a generation rate *)

\* the resource types that have been boosted while a boost of the same type
\* was pending, since the timer queue was last empty
Overlapped == IF "overlapped" \in DOMAIN lastCall THEN lastCall.overlapped ELSE { }

\* the rates when the first of the pending boosts was started
BoostBase == IF "base" \in DOMAIN lastCall THEN lastCall.base ELSE resourceGenerationRates

\* economySystem.boostResourceGeneration(resourceType, multiplier, duration)
BoostResourceGenerationCall(resourceType, multiplier, duration) ==
    LET currentRate == resourceGenerationRates[resourceType]
        boostedRate == currentRate * multiplier
    IN /\ resourceGenerationRates' = SetRate(resourceGenerationRates, resourceType, boostedRate)
       /\ timers' = Append(timers, BoostTimer(resourceType, currentRate, duration))
       /\ lastCall' = [ op |-> "boostResourceGeneration",
                        resourceType |-> resourceType,
                        multiplier |-> multiplier,
                        duration |-> duration,
                        base |-> IF timers = << >> THEN resourceGenerationRates ELSE BoostBase,
                        overlapped |->
                            IF timers = << >> THEN { }
                            ELSE IF \E i \in DOMAIN timers : timers[i].resourceType = resourceType
                                 THEN Overlapped \cup { resourceType }
                                 ELSE Overlapped ]
       /\ calls' = calls + 1
       /\ UNCHANGED << nextEntityId, entities, isActive, components, systems, uncaught, ticks >>

\* the setTimeout callback of boostResourceGeneration runs
BoostCallback(i) ==
    /\ NextDue(timers, i)
    /\ resourceGenerationRates' =
          SetRate(resourceGenerationRates, timers[i].resourceType, timers[i].currentRate)
    /\ timers' = RemoveAt(timers, i)
    /\ lastCall' = [ op |-> "boostCallback",
                     resourceType |-> timers[i].resourceType,
                     base |-> BoostBase,
                     overlapped |-> Overlapped ]
    /\ UNCHANGED << nextEntityId, entities, isActive, components, systems, uncaught, ticks, calls >>

\* time passes while no callback is due
Wait(elapsed) ==
    /\ timers # << >>
    /\ \A i \in DOMAIN timers : timers[i].remaining > 0
    /\ timers' = ElapseBoosts(timers, elapsed)
    /\ UNCHANGED << nextEntityId, entities, isActive, components, systems,
                    resourceGenerationRates, uncaught, lastCall, ticks, calls >>

Multipliers == { 2, 3 }
Durations == { 1, 2 }

NextEconomy ==
    \/ calls < MaxBoosts
          /\ \E resourceType \in { "gold", "wood" }, multiplier \in Multipliers,
                duration \in Durations :
                BoostResourceGenerationCall(resourceType, multiplier, duration)
    \/ \E i \in DOMAIN timers : BoostCallback(i)
    \/ \E elapsed \in DeltaTimes : Wait(elapsed)

SpecEconomy == Init /\ [][NextEconomy]_vars

\* every boost timer has fired
AllBoostsOver == lastCall.op = "boostCallback" /\ timers = << >>

\* C39: when boosts of one resource type have overlapped, then once all boost
\* timers have fired the generation rate of that type is what it was before
\* the first of the boosts.
C39_BoostsRestoreRate ==
    AllBoostsOver
        => \A resourceType \in Overlapped :
              resourceGenerationRates[resourceType] = BoostBase[resourceType]

\* after boosts that did not overlap every rate is back
C39_ApartRestored ==
    /\ AllBoostsOver
    /\ Overlapped = { }
    /\ calls = MaxBoosts
    /\ resourceGenerationRates = InitialRates

\* after overlapping boosts of gold the rate of gold stays boosted
C39_StaysBoosted ==
    /\ AllBoostsOver
    /\ "gold" \in Overlapped
    /\ resourceGenerationRates["gold"] > InitialRates["gold"]

=============================================================================
